---- MODULE Spec2Model ----
(***************************************************************************)
(* Tab Power Saver (batbash): the throttle / restore state machine.        *)
(*                                                                         *)
(*   - Domain allow-list      background.js  getDomain / isWhitelisted     *)
(*   - Capability Interceptor throttle-script.js                           *)
(*   - Capability Restorer    restore-script.js and its variant part_001   *)
(*   - Population Coordinator background.js                                *)
(*                                                                         *)
(* Strings the code takes apart (host names) are sequences of one-letter   *)
(* strings.  A function reference is a sequence of tags: <<"setTimeout">>  *)
(* is the browser's own function, <<"bind">> \o f the function object      *)
(* f.bind(window) creates, <<"floor">> \o f a replacement that calls f.    *)
(* The empty sequence stands for undefined.                                *)
(***************************************************************************)
EXTENDS Integers, Sequences, FiniteSets, TLC

VARIABLES
    \* --- allow-list function under test
    wlUrl, wlSites, wlResult,
    \* --- one document (content-script world) under the two injected scripts
    doc, docPre, docOps, variant,
    \* --- the calls the document's own code made that reached the real
    \*     setTimeout / setInterval of the browser
    timerCalls,
    \* --- the animation-frame requests of the document and its 2D canvas
    \*     surfaces
    \*     frames.requests[i]: one call of the throttled requestAnimationFrame;
    \*       id = the value returned, type/realId = its rafIdMap entry,
    \*       mapped = the entry is in rafIdMap, scheduled = the real frame or
    \*       the deferred timer under it is pending, fired = times the
    \*       callback ran, cancelled = cancelAnimationFrame(id) found the entry
    \*       before the callback ran, lateFire = the callback ran after restore
    \*     frames.elapsed: performance.now() - lastAnimationFrameTime >=
    \*       MIN_FRAME_INTERVAL
    frames, surfaces,
    \* --- the coordinator (background page) and the tab population
    powerSavingEnabled, throttledTabs, sites, tabs, pages, pending,
    listeners, monitorHandle, liveIntervals, budget,
    \* --- history: tabs whose throttle injection failed since their last load
    injectFailed

wlVars    == <<wlUrl, wlSites, wlResult>>
docVars   == <<doc, docPre, docOps, variant, timerCalls, frames, surfaces>>
coordVars == <<powerSavingEnabled, throttledTabs, sites, tabs, pages, pending,
               listeners, monitorHandle, liveIntervals, budget, injectFailed>>
vars      == <<wlVars, docVars, coordVars>>

----------------------------------------------------------------------------
(* Bounds *)

MaxHostLen == 7

NumMedia == 2

MaxOps == 3

MediaPos == 7

NumTabs == 2

MaxPending == 2

MaxEnv == 3

MaxCalls == 2

----------------------------------------------------------------------------
(* Strings *)

Undefined == <<>>

StartsWith(s, p) == Len(s) >= Len(p) /\ SubSeq(s, 1, Len(p)) = p

EndsWith(s, p) == Len(s) >= Len(p) /\ SubSeq(s, Len(s) - Len(p) + 1, Len(s)) = p

\* String.prototype.split('.'): "" splits to [""], "a." to ["a", ""].
RECURSIVE Split(_)
Split(s) ==
    IF \A i \in 1..Len(s) : s[i] # "."
    THEN <<s>>
    ELSE LET i == CHOOSE k \in 1..Len(s) :
                      s[k] = "." /\ \A j \in 1..(k - 1) : s[j] # "."
         IN  <<SubSeq(s, 1, i - 1)>> \o Split(SubSeq(s, i + 1, Len(s)))

\* Array.prototype.join('.')
RECURSIVE Join(_)
Join(parts) ==
    IF Len(parts) = 0 THEN <<>>
    ELSE IF Len(parts) = 1 THEN parts[1]
    ELSE parts[1] \o <<".">> \o Join(Tail(parts))

\* Array.prototype.slice(-2)
SliceLast2(parts) ==
    IF Len(parts) <= 2 THEN parts ELSE SubSeq(parts, Len(parts) - 1, Len(parts))

----------------------------------------------------------------------------
(* Domain allow-list: background.js 19-48 *)

WWW_DOT == <<"w", "w", "w", ".">>

\* host.replace(/^www\./, '')
StripWww(host) ==
    IF StartsWith(host, WWW_DOT) THEN SubSeq(host, 5, Len(host)) ELSE host

\* A URL as new URL(url) sees it: valid = FALSE when the constructor throws.
Url(valid, scheme, hostname) ==
    [present |-> TRUE, valid |-> valid, scheme |-> scheme, hostname |-> hostname]

NoUrl == [present |-> FALSE, valid |-> FALSE, scheme |-> "", hostname |-> <<>>]

getDomain(url) ==
    IF ~url.present \/ ~url.valid
    THEN <<>>
    ELSE LET host  == StripWww(url.hostname)
             parts == Split(host)
         IN  IF Len(parts) > 2 THEN Join(SliceLast2(parts)) ELSE host

\* Faulty variant: `sites.includes(d)` without the `d &&` guard.
isWhitelistedNoGuard(url, list) ==
    IF getDomain(url) \in list THEN "true" ELSE "false"

\* The value of `d && sites.includes(d)`: "" when d is empty, else a boolean.
isWhitelistedValue(url, list) ==
    LET d == getDomain(url)
    IN  IF d = <<>> THEN "''"
        ELSE IF d \in list THEN "true" ELSE "false"

Truthy(v) == v = "true"

isWhitelisted(url, list) == Truthy(isWhitelistedValue(url, list))

----------------------------------------------------------------------------
(* Function references *)

Native(name) == <<name>>

\* f.bind(window): a new function object that forwards to f.
Bind(f) == <<"bind">> \o f

\* A replacement installed by the throttle script that closes over f.
Wrap(tag, f) == <<tag>> \o f

IsDefined(f) == f # Undefined

----------------------------------------------------------------------------
(* JavaScript values passed as the delay of a timer call.  A value is a     *)
(* number, NaN, undefined, null or a string; a string is kept as the number *)
(* it converts to (nan = TRUE when it converts to none).                    *)

JsNumber(n) == [type |-> "number", nan |-> FALSE, val |-> n]

JsNaN == [type |-> "number", nan |-> TRUE, val |-> 0]

JsUndefined == [type |-> "undefined", nan |-> FALSE, val |-> 0]

JsNull == [type |-> "null", nan |-> FALSE, val |-> 0]

JsString(n) == [type |-> "string", nan |-> FALSE, val |-> n]

JsStringNoNumber == [type |-> "string", nan |-> TRUE, val |-> 0]

\* ToNumber of the language: undefined and unparsable strings give NaN,
\* null gives 0.
ToNumber(v) ==
    IF v.type = "undefined" THEN JsNaN
    ELSE IF v.nan THEN JsNaN
    ELSE JsNumber(v.val)

\* Math.max(a, b): NaN as soon as one argument converts to NaN.
MathMax(a, b) ==
    LET x == ToNumber(a)
        y == ToNumber(b)
    IN  IF x.nan \/ y.nan THEN JsNaN
        ELSE IF x.val >= y.val THEN x ELSE y

\* A parameter default (`delay = 0`) replaces undefined only.
DefaultTo(v, d) == IF v.type = "undefined" THEN d ELSE v

\* The delay the browser's scheduler waits for when handed v: the value is
\* converted to a long, NaN becomes 0 and a negative delay counts as 0.
EffectiveDelay(v) ==
    LET n == ToNumber(v)
    IN  IF n.nan \/ n.val < 0 THEN 0 ELSE n.val

----------------------------------------------------------------------------
(* One document as the injected scripts see it.                             *)
(*   applied   window.__tabPowerSaverApplied                                *)
(*   declared  the top-level const/let bindings of throttle-script.js exist *)
(*             in this world's global scope (a second evaluation of the     *)
(*             file is rejected before its first statement runs)            *)

Elems == 1..NumMedia

NoOriginals ==
    [defined |-> FALSE, setTimeout |-> Undefined, setInterval |-> Undefined,
     requestAnimationFrame |-> Undefined, canvasGetContext |-> Undefined,
     cancelAnimationFrame |-> Undefined, clearTimeout |-> Undefined]

\* A media element: inDoc = part of the document, play = its play binding.
MediaElement(inDoc, paused, autoplay, muted, pos) ==
    [inDoc |-> inDoc, paused |-> paused, autoplay |-> autoplay, muted |-> muted,
     currentTime |-> pos, play |-> Native("play"), originalPlay |-> Undefined,
     throttledFlag |-> FALSE, wasPlayingAttr |-> FALSE]

AbsentElement == MediaElement(FALSE, TRUE, FALSE, FALSE, 0)

\* A freshly loaded document holding the media elements `media`.
FreshPage(media, playAllowed) ==
    [applied |-> FALSE, declared |-> FALSE,
     setTimeout |-> Native("setTimeout"), setInterval |-> Native("setInterval"),
     requestAnimationFrame |-> Native("requestAnimationFrame"),
     cancelAnimationFrame |-> Native("cancelAnimationFrame"),
     getContext |-> Native("getContext"),
     ResizeObserver |-> Native("ResizeObserver"),
     IntersectionObserver |-> Native("IntersectionObserver"),
     Worker |-> Native("Worker"),
     originals |-> NoOriginals,
     origCanvasGetContext |-> Undefined, origResizeObserver |-> Undefined,
     origIntersectionObserver |-> Undefined, origWorker |-> Undefined,
     rafIdMap |-> FALSE, canvasRenderMap |-> FALSE,
     media |-> media, mediaStateDefined |-> FALSE, mediaState |-> <<>>,
     mediaObserver |-> FALSE,
     rootAttr |-> FALSE, styleInHead |-> FALSE, styleRef |-> FALSE,
     overflowInline |-> FALSE, playAllowed |-> playAllowed,
     locked |-> {}, mutations |-> <<>>, scroll |-> [x |-> 0, y |-> 0]]

NoMedia == [e \in Elems |-> AbsentElement]

----------------------------------------------------------------------------
(* Capability Interceptor: throttle-script.js *)

ONE_SHOT_FLOOR == 10000

REPEATING_FLOOR == 30000

\* throttle-script.js 31-36: the replacement of window.setTimeout hands this
\* delay to the captured original.
floorTimeout(delay) == MathMax(DefaultTo(delay, JsNumber(0)), JsNumber(ONE_SHOT_FLOOR))

\* throttle-script.js 43-48: the same for window.setInterval.
floorInterval(delay) ==
    MathMax(DefaultTo(delay, JsNumber(0)), JsNumber(REPEATING_FLOOR))

\* The delay that reaches the browser's scheduler when the function f, a
\* native timer function under any bound copies and replacements, is called
\* with `delay`.
RECURSIVE PassedDelay(_, _)
PassedDelay(f, delay) ==
    IF Len(f) <= 1 THEN delay
    ELSE IF Head(f) = "floorTimeout" THEN PassedDelay(Tail(f), floorTimeout(delay))
    ELSE IF Head(f) = "floorInterval" THEN PassedDelay(Tail(f), floorInterval(delay))
    ELSE PassedDelay(Tail(f), delay)

\* The window properties throttle-script.js replaces with
\* Object.defineProperty, in the order of lines 31, 42, 61 and 95.
DefineOrder ==
    <<"setTimeout", "setInterval", "requestAnimationFrame", "cancelAnimationFrame">>

\* Object.defineProperty(window, name, {value, configurable: true, writable:
\* true}) throws a TypeError when the page made the property non-configurable
\* (p.locked).  The index of the first such call, Len + 1 when none throws.
FirstLocked(p) ==
    LET hit == {i \in DOMAIN DefineOrder : DefineOrder[i] \in p.locked}
    IN  IF hit = {} THEN Len(DefineOrder) + 1
        ELSE CHOOSE i \in hit : \A j \in hit : i <= j

\* Faulty variant: throttleMediaElement without the test of line 200.
throttleMediaElementNoSkip(p, e) ==
    LET m == p.media[e]
        wasPlaying == ~m.paused
    IN  [p EXCEPT
           !.mediaState = Append(@, [element |-> e, wasPlaying |-> wasPlaying,
                                     currentTime |-> m.currentTime]),
           !.media[e] = [m EXCEPT
               !.paused = TRUE,
               !.wasPlayingAttr = IF wasPlaying THEN TRUE ELSE @,
               !.autoplay = FALSE,
               !.muted = TRUE,
               !.play = IF IsDefined(m.originalPlay) THEN @ ELSE <<"blockedPlay">>,
               !.originalPlay = IF IsDefined(m.originalPlay) THEN @ ELSE m.play,
               !.throttledFlag = TRUE]]

\* throttle-script.js 198-227, applied to element e of page p.
throttleMediaElement(p, e) ==
    LET m == p.media[e]
        wasPlaying == ~m.paused
    IN  IF m.throttledFlag THEN p
        ELSE [p EXCEPT
                !.mediaState = Append(@, [element |-> e, wasPlaying |-> wasPlaying,
                                          currentTime |-> m.currentTime]),
                !.media[e] = [m EXCEPT
                    !.paused = TRUE,
                    !.wasPlayingAttr = IF wasPlaying THEN TRUE ELSE @,
                    !.autoplay = FALSE,
                    !.muted = TRUE,
                    !.play = IF IsDefined(m.originalPlay) THEN @ ELSE <<"blockedPlay">>,
                    !.originalPlay = IF IsDefined(m.originalPlay) THEN @ ELSE m.play,
                    !.throttledFlag = TRUE]]

\* document.querySelectorAll('video, audio').forEach(throttleMediaElement),
\* elements e..NumMedia in document order.
RECURSIVE ThrottleAllMedia(_, _)
ThrottleAllMedia(p, e) ==
    IF e > NumMedia THEN p
    ELSE ThrottleAllMedia(IF p.media[e].inDoc THEN throttleMediaElement(p, e) ELSE p,
                          e + 1)

\* The statements of throttle-script.js from line 10 on.  The guard of lines
\* 1-8 returns from its own function expression only, so nothing here
\* depends on p.applied.
ThrottleBody(p) ==
    LET originalSetTimeout  == Bind(p.setTimeout)
        originalSetInterval == Bind(p.setInterval)
        originalRAF         == Bind(p.requestAnimationFrame)
        originalCanvasGetContext == p.getContext
        originalCancelRAF   == Bind(p.cancelAnimationFrame)
        originalClearTimeout == Bind(Native("clearTimeout"))
        \* the first Object.defineProperty call (lines 31, 42, 61, 95) that
        \* throws; the statements after it do not run
        n  == FirstLocked(p)
        \* lines 13-117
        p0 == [p EXCEPT
                 !.declared = TRUE,
                 !.applied = TRUE,
                 !.originals = [defined |-> TRUE,
                                setTimeout |-> originalSetTimeout,
                                setInterval |-> originalSetInterval,
                                requestAnimationFrame |-> originalRAF,
                                canvasGetContext |-> originalCanvasGetContext,
                                cancelAnimationFrame |->
                                    IF n > 4 THEN originalCancelRAF ELSE Undefined,
                                clearTimeout |->
                                    IF n > 4 THEN originalClearTimeout ELSE Undefined],
                 !.setTimeout = IF n > 1 THEN Wrap("floorTimeout", originalSetTimeout)
                                ELSE @,
                 !.setInterval = IF n > 2 THEN Wrap("floorInterval", originalSetInterval)
                                 ELSE @,
                 !.requestAnimationFrame =
                     IF n > 3 THEN Wrap("throttledRAF", originalRAF) ELSE @,
                 !.cancelAnimationFrame =
                     IF n > 4 THEN Wrap("mappedCancelRAF", originalCancelRAF) ELSE @,
                 !.rafIdMap = IF n > 4 THEN TRUE ELSE @]
        p1 == [p0 EXCEPT
                 !.canvasRenderMap = TRUE,
                 !.getContext = Wrap("throttledGetContext", originalCanvasGetContext),
                 !.origCanvasGetContext = originalCanvasGetContext,
                 \* const mediaElements = [] (line 195)
                 !.mediaState = <<>>]
        p2 == ThrottleAllMedia(p1, 1)
    IN  IF n <= 4 THEN p0 ELSE
        [p2 EXCEPT
           !.mediaObserver = TRUE,
           !.mediaStateDefined = TRUE,
           !.origResizeObserver = p.ResizeObserver,
           !.origIntersectionObserver = p.IntersectionObserver,
           !.ResizeObserver = Wrap("throttledResizeObserver", p.ResizeObserver),
           !.IntersectionObserver =
               Wrap("throttledIntersectionObserver", p.IntersectionObserver),
           !.origWorker = p.Worker,
           !.Worker = Wrap("throttledWorker", p.Worker),
           !.rootAttr = TRUE,
           !.styleInHead = TRUE,
           !.styleRef = TRUE]

\* Evaluating throttle-script.js in a world that already holds its top-level
\* const bindings (originalSetTimeout, ...) is a redeclaration: the engine
\* rejects the script with a SyntaxError before any statement runs.
ThrottleScriptThrows(p) == p.declared

\* Faulty variant: the file with var declarations, which a second
\* evaluation does not reject.
ThrottleScriptVar(p) == ThrottleBody(p)

ThrottleScript(p) == IF ThrottleScriptThrows(p) THEN p ELSE ThrottleBody(p)

----------------------------------------------------------------------------
(* Capability Restorer: restore-script.js ("A") and its variant part_001    *)
(* ("B"), which differ in sections 3 to 6.                                  *)

\* element.play() through the element's current play binding: playback
\* starts when the binding is the browser's own and the autoplay policy
\* allows it; otherwise the returned promise rejects and is caught.
PlayElement(m, playAllowed) ==
    IF m.play = Native("play") /\ playAllowed THEN [m EXCEPT !.paused = FALSE] ELSE m

\* The forEach body of restore-script.js 131-162 / part_001 131-160 for one
\* snapshot.  Neither originalAutoplay nor originalMuted is a field of the
\* snapshots throttleMediaElement pushes, so both read as undefined.
RestoreSnapshot(p, snap, v) ==
    LET m  == p.media[snap.element]
        m1 == [m EXCEPT
                 !.play = IF IsDefined(m.originalPlay) THEN m.originalPlay ELSE @,
                 !.originalPlay = Undefined,
                 !.throttledFlag = FALSE]
        m2 == IF v = "A" THEN [m1 EXCEPT !.muted = FALSE] ELSE m1
        m3 == IF snap.wasPlaying
              THEN PlayElement([m2 EXCEPT !.currentTime = snap.currentTime,
                                          !.muted = IF v = "B" THEN FALSE ELSE @],
                               p.playAllowed)
              ELSE m2
    IN  [p EXCEPT !.media[snap.element] =
            [m3 EXCEPT !.wasPlayingAttr = FALSE, !.autoplay = TRUE]]

\* Faulty variant: playback resumed before the play method and the muted
\* flag are put back.
RestoreSnapshotStepsPlayFirst(snap, v) ==
    (IF snap.wasPlaying THEN <<"setCurrentTime", "play">> ELSE <<>>)
        \o <<"restorePlay", "clearFlag", "setMuted", "clearAttr", "setAutoplay">>

\* The statements of the forEach body in the order the files run them:
\* restore-script.js 133-136, 139, 142, 145-158, 161-162; part_001 133-136,
\* 139, 142-155, 158-159.
RestoreSnapshotSteps(snap, v) ==
    <<"restorePlay", "clearFlag">>
        \o (IF v = "A" THEN <<"setMuted">> ELSE <<>>)
        \o (IF snap.wasPlaying
            THEN <<"setCurrentTime">>
                    \o (IF v = "B" THEN <<"setMuted">> ELSE <<>>)
                    \o <<"play">>
            ELSE <<>>)
        \o <<"clearAttr", "setAutoplay">>

\* One statement of the forEach body applied to media element m.
ApplyStep(m, step, snap, playAllowed) ==
    IF step = "restorePlay"
    THEN [m EXCEPT !.play = IF IsDefined(m.originalPlay) THEN m.originalPlay ELSE @,
                   !.originalPlay = Undefined]
    ELSE IF step = "clearFlag" THEN [m EXCEPT !.throttledFlag = FALSE]
    ELSE IF step = "setMuted" THEN [m EXCEPT !.muted = FALSE]
    ELSE IF step = "setCurrentTime" THEN [m EXCEPT !.currentTime = snap.currentTime]
    ELSE IF step = "play" THEN PlayElement(m, playAllowed)
    ELSE IF step = "clearAttr" THEN [m EXCEPT !.wasPlayingAttr = FALSE]
    ELSE [m EXCEPT !.autoplay = TRUE]

RECURSIVE ApplySteps(_, _, _, _)
ApplySteps(m, steps, snap, playAllowed) ==
    IF steps = <<>> THEN m
    ELSE ApplySteps(ApplyStep(m, Head(steps), snap, playAllowed), Tail(steps), snap,
                    playAllowed)

\* The statements of section 6 in the order the files run them:
\* restore-script.js 178-186; part_001 219-246.
RestoreCssSteps(p, v) ==
    IF v = "A"
    THEN IF p.styleRef THEN <<"removeStyle", "deleteStyleRef">> ELSE <<>>
    ELSE IF p.styleRef
         THEN <<"removeStyle", "captureScroll", "setOverflow", "scrollTo">>
         ELSE <<"setOverflow">>

RECURSIVE RestoreAllMedia(_, _, _)
RestoreAllMedia(p, snaps, v) ==
    IF snaps = <<>> THEN p
    ELSE RestoreAllMedia(RestoreSnapshot(p, Head(snaps), v), Tail(snaps), v)

\* The first Object.defineProperty call of section 1 (lines 13, 19, 25, 33)
\* that throws; the call of line 33 is made only when the record holds
\* cancelAnimationFrame.
RestoreFirstLocked(p) ==
    LET hit == {i \in DOMAIN DefineOrder :
                  /\ DefineOrder[i] \in p.locked
                  /\ i = 4 => IsDefined(p.originals.cancelAnimationFrame)}
    IN  IF hit = {} THEN Len(DefineOrder) + 1
        ELSE CHOOSE i \in hit : \A j \in hit : i <= j

\* Whether the restore script is left by an exception inside section 1.
RestoreThrows(p) == p.originals.defined /\ RestoreFirstLocked(p) <= Len(DefineOrder)

\* Section 1: timing functions (both files 11-49).
RestoreTiming(p) ==
    LET n == RestoreFirstLocked(p)
    IN  IF p.originals.defined
        THEN [p EXCEPT
                !.setTimeout = IF n > 1 THEN p.originals.setTimeout ELSE @,
                !.setInterval = IF n > 2 THEN p.originals.setInterval ELSE @,
                !.requestAnimationFrame =
                    IF n > 3 THEN p.originals.requestAnimationFrame ELSE @,
                !.cancelAnimationFrame =
                    IF n > 4 /\ IsDefined(p.originals.cancelAnimationFrame)
                    THEN p.originals.cancelAnimationFrame ELSE @,
                !.rafIdMap = IF n > 4 THEN FALSE ELSE @]
        ELSE p

\* Section 2: canvas (both files 51-120).
RestoreCanvas(p) ==
    IF IsDefined(p.origCanvasGetContext)
    THEN [p EXCEPT !.getContext = p.origCanvasGetContext,
                   !.canvasRenderMap = FALSE,
                   !.origCanvasGetContext = Undefined]
    ELSE p

\* Section 3: media (restore-script.js 122-168, part_001 122-166).
RestoreMedia(p, v) ==
    LET p1 == [p EXCEPT !.mediaObserver = FALSE, !.mutations = <<>>]
    IN  IF p1.mediaStateDefined
        THEN [RestoreAllMedia(p1, p1.mediaState, v) EXCEPT
                 !.mediaStateDefined = FALSE, !.mediaState = <<>>]
        ELSE p1

\* Sections 4 and 5: restore-script.js 170-176 holds comments only;
\* part_001 168-217 puts the three constructors back.
RestoreObserversAndWorker(p, v) ==
    IF v = "A" THEN p
    ELSE [p EXCEPT
            !.ResizeObserver =
                IF IsDefined(p.origResizeObserver) THEN p.origResizeObserver ELSE @,
            !.origResizeObserver = Undefined,
            !.IntersectionObserver =
                IF IsDefined(p.origIntersectionObserver)
                THEN p.origIntersectionObserver ELSE @,
            !.origIntersectionObserver = Undefined,
            !.Worker = IF IsDefined(p.origWorker) THEN p.origWorker ELSE @,
            !.origWorker = Undefined]

\* Section 6: restore-script.js 178-186, part_001 219-246.
RestoreCss(p, v) ==
    IF p.styleRef
    THEN [p EXCEPT !.styleInHead = FALSE,
                   !.styleRef = IF v = "A" THEN FALSE ELSE @,
                   !.overflowInline = IF v = "B" THEN TRUE ELSE @,
                   \* part_001 227 and 236: scrollTop = window.pageYOffset ||
                   \* document.documentElement.scrollTop; window.scrollTo(0, scrollTop)
                   !.scroll = IF v = "B" THEN [x |-> 0, y |-> p.scroll.y] ELSE @]
    ELSE [p EXCEPT !.overflowInline = IF v = "B" THEN TRUE ELSE @]

\* Section 7: final cleanup.
RestoreCleanup(p) ==
    [p EXCEPT !.originals = NoOriginals, !.rootAttr = FALSE, !.applied = FALSE]

RestoreBody(p, v) ==
    IF RestoreThrows(p) THEN RestoreTiming(p)
    ELSE RestoreCleanup(RestoreCss(RestoreObserversAndWorker(
             RestoreMedia(RestoreCanvas(RestoreTiming(p)), v), v), v))

\* Faulty variant: the guard of line 4 without its negation.
RestoreScriptInvertedGuard(p, v) == IF p.applied THEN p ELSE RestoreBody(p, v)

\* The whole file is one function expression whose first statement returns
\* when the marker is unset.
RestoreScript(p, v) == IF ~p.applied THEN p ELSE RestoreBody(p, v)

----------------------------------------------------------------------------
(* Population Coordinator: background.js *)

Tabs == 1..NumTabs

\* The tab the coordinator specification follows through every event.  The
\* handlers treat each tab id on its own; the loops over several tabs are
\* exercised by the sweep specification.
Studied == CHOOSE t \in Tabs : \A u \in Tabs : t <= u

RESTRICTED_SCHEMES == {"about:", "chrome:", "file:", "moz-extension:", "view-source:"}

\* background.js 250-257
isTabAccessible(tab) == tab.url.present /\ tab.url.scheme \notin RESTRICTED_SCHEMES

\* URLs a tab can show: a restricted page, a subdomain of y.w, a host that
\* only ends with the letters of y.w, and a host the extension holds no
\* permission for.
UrlAbout == Url(TRUE, "about:", <<>>)

UrlMusic == Url(TRUE, "https:", <<"m", ".", "y", ".", "w">>)

UrlPlain == Url(TRUE, "https:", <<"n", "y", ".", "w">>)

UrlStore == Url(TRUE, "https:", <<"a", ".", "m">>)

TabUrls == {UrlAbout, UrlMusic, UrlPlain, UrlStore}

SiteChoices == {{}, {<<"y", ".", "w">>}}

\* The host platform runs injected code in tab t: the tab is open, its URL is
\* not a restricted page and the extension holds the host permission
\* ('Missing host permission' otherwise, background.js 308).
CanInject(t) ==
    /\ tabs[t].exists
    /\ isTabAccessible(tabs[t])
    /\ tabs[t].url # UrlStore

\* Operations in flight: asynchronous calls whose callback has not run yet,
\* counted per kind and tab (tab 0 for calls that name no tab).
OpKinds ==
    {"getThrottle", "check", "inject", "injectOk", "injectErr",
     "getRestore", "restoreInject", "activation"}

GlobalKinds ==
    {"storageSites", "storageEnabled", "sweepQuery", "offQuery", "startupTimer"}

Ops == (OpKinds \X Tabs) \cup (GlobalKinds \X {0})

NoPending == [o \in Ops |-> 0]

RECURSIVE SumOps(_, _)
SumOps(pend, S) ==
    IF S = {} THEN 0
    ELSE LET o == CHOOSE x \in S : TRUE IN pend[o] + SumOps(pend, S \ {o})

InFlight(pend) == SumOps(pend, Ops)

AddOp(pend, kind, t) == [pend EXCEPT ![<<kind, t>>] = @ + 1]

DelOp(pend, kind, t) == [pend EXCEPT ![<<kind, t>>] = @ - 1]

\* background.js 260-270: the synchronous part of throttleTab.
throttleTab(pend, t) ==
    IF t \in throttledTabs THEN pend ELSE AddOp(pend, "getThrottle", t)

\* background.js 326-330: the synchronous part of restoreTab.
restoreTab(pend, t) == AddOp(pend, "getRestore", t)

\* Faulty variant: the forEach body without the isWhitelisted test of 208-211.
SweepTabNoWhitelist(pend, t) ==
    IF ~tabs[t].exists \/ ~isTabAccessible(tabs[t]) THEN pend
    ELSE IF ~tabs[t].active /\ ~tabs[t].pinned /\ ~tabs[t].audible
            /\ t \notin throttledTabs
         THEN throttleTab(pend, t)
    ELSE IF tabs[t].active /\ t \in throttledTabs THEN restoreTab(pend, t)
    ELSE pend

\* background.js 206-225: the forEach body of the sweep.
SweepTab(pend, t) ==
    IF ~tabs[t].exists \/ ~isTabAccessible(tabs[t]) THEN pend
    ELSE IF isWhitelisted(tabs[t].url, sites) THEN pend
    ELSE IF ~tabs[t].active /\ ~tabs[t].pinned /\ ~tabs[t].audible
            /\ t \notin throttledTabs
         THEN throttleTab(pend, t)
    ELSE IF tabs[t].active /\ t \in throttledTabs THEN restoreTab(pend, t)
    ELSE pend

RECURSIVE SweepTabs(_, _)
SweepTabs(pend, t) ==
    IF t > NumTabs THEN pend ELSE SweepTabs(SweepTab(pend, t), t + 1)

\* background.js 190-197: the synchronous part of detectAllBackgroundTabs.
detectAllBackgroundTabs(pend, enabled) ==
    IF ~enabled THEN pend ELSE AddOp(pend, "sweepQuery", 0)

\* background.js 152-158, 371-377: restore every accessible tracked tab.
RECURSIVE RestoreTracked(_, _)
RestoreTracked(pend, t) ==
    IF t > NumTabs THEN pend
    ELSE RestoreTracked(
            IF tabs[t].exists /\ isTabAccessible(tabs[t]) /\ t \in throttledTabs
            THEN restoreTab(pend, t) ELSE pend,
            t + 1)

\* background.js 168-178 and 181-187 on the pair
\* <<window.tabMonitoringInterval is set, number of live intervals>>.
\* Faulty variant: the interval is created without clearing the one in place.
startTabMonitoringNoClear(handle, live) == <<TRUE, live + 1>>

startTabMonitoring(handle, live) ==
    <<TRUE, (IF handle THEN live - 1 ELSE live) + 1>>

stopTabMonitoring(handle, live) ==
    IF handle THEN <<FALSE, live - 1>> ELSE <<handle, live>>

\* background.js 145-159, 364-378: what both toggles do once the flag is set.
ApplyToggle(enabled) ==
    /\ powerSavingEnabled' = enabled
    /\ IF enabled
       THEN /\ monitorHandle' = startTabMonitoring(monitorHandle, liveIntervals)[1]
            /\ liveIntervals' = startTabMonitoring(monitorHandle, liveIntervals)[2]
            /\ pending' = detectAllBackgroundTabs(pending, enabled)
       ELSE /\ monitorHandle' = stopTabMonitoring(monitorHandle, liveIntervals)[1]
            /\ liveIntervals' = stopTabMonitoring(monitorHandle, liveIntervals)[2]
            /\ pending' = AddOp(pending, "offQuery", 0)
    /\ InFlight(pending') <= MaxPending

----------------------------------------------------------------------------
(* Parked values of the variable groups a specification does not use *)

WlIdle == wlUrl = NoUrl /\ wlSites = {} /\ wlResult = "unset"

\* No animation frame was requested and no 2D surface acquired.
NoFrames ==
    [requests |-> <<>>, nextRafId |-> 1, nextRealId |-> 1, elapsed |-> TRUE,
     restored |-> FALSE]

NumCanvas == 1

Canvases == 1..NumCanvas

\* A canvas element of a freshly loaded document: no 2D context yet.  The
\* four draw operations the throttle script replaces (fillRect, drawImage,
\* stroke, fill) are treated alike by both scripts and share one
\* canvasLastRender entry; `draw` stands for any one of them.
\* The latest call of a draw operation on a surface: how many replacements
\* the operation carried, whether the surface had no canvasLastRender entry or
\* the minimum interval had passed (due), and whether the call reached the
\* surface ("drawn") or returned null ("suppressed").
NoCall == [outcome |-> "none", wrappers |-> 0, due |-> FALSE]

FreshCanvas ==
    [exists |-> FALSE, inDoc |-> TRUE, draw |-> Native("fillRect"),
     stored |-> Undefined, flag |-> FALSE, hasLast |-> FALSE, elapsed |-> FALSE,
     lastCall |-> NoCall, reacquired |-> FALSE]

NoSurfaces == [c \in Canvases |-> FreshCanvas]

RunIdle == frames = NoFrames /\ surfaces = NoSurfaces

DocIdle ==
    /\ doc = FreshPage(NoMedia, TRUE)
    /\ docPre = FreshPage(NoMedia, TRUE)
    /\ docOps = <<>>
    /\ variant = "A"
    /\ timerCalls = <<>>
    /\ RunIdle

CoordIdle ==
    /\ powerSavingEnabled = FALSE
    /\ throttledTabs = {}
    /\ sites = {}
    /\ tabs = <<>>
    /\ pages = <<>>
    /\ pending = <<>>
    /\ listeners = FALSE
    /\ monitorHandle = FALSE
    /\ liveIntervals = 0
    /\ budget = 0
    /\ injectFailed = {}

----------------------------------------------------------------------------
(* SpecWL: isWhitelisted applied to one URL and one allow-list *)

HostChars == {"w", "y", "."}

\* Host names of at most MaxHostLen letters whose labels are non-empty,
\* and the empty host name (file:, about: URLs).
Hosts ==
    {h \in UNION {[1..n -> HostChars] : n \in 0..MaxHostLen} :
        /\ (Len(h) > 0 => h[1] # "." /\ h[Len(h)] # ".")
        /\ \A i \in 1..(Len(h) - 1) : ~(h[i] = "." /\ h[i + 1] = ".")}

WlUrls ==
    {NoUrl, Url(FALSE, "", <<>>)}
        \cup {Url(TRUE, IF h = <<>> THEN "file:" ELSE "https:", h) : h \in Hosts}

\* Entries an allow-list is drawn from: the empty string, a one-label host,
\* two-label domains, one of them led by the label www.
SitePool ==
    {<<>>, <<"y">>, <<"y", ".", "w">>, <<"w", ".", "y">>, <<"w", "w", "w", ".", "y">>}

InitWL ==
    /\ wlUrl \in WlUrls
    /\ wlSites \in SUBSET SitePool
    /\ wlResult = "unset"
    /\ DocIdle
    /\ CoordIdle

CallIsWhitelisted ==
    /\ wlResult = "unset"
    /\ wlResult' = isWhitelistedValue(wlUrl, wlSites)
    /\ UNCHANGED <<wlUrl, wlSites, docVars, coordVars>>

NextWL == CallIsWhitelisted

SpecWL == InitWL /\ [][NextWL]_vars

----------------------------------------------------------------------------
(* SpecPage: one document, the two scripts injected in any order *)

ElementChoices ==
    {AbsentElement}
        \cup {MediaElement(TRUE, pz, ap, mu, pos) :
                pz \in BOOLEAN, ap \in BOOLEAN, mu \in BOOLEAN, pos \in {0, MediaPos}}

InitPage ==
    /\ \E m \in [Elems -> ElementChoices], pa \in BOOLEAN :
          /\ doc = FreshPage(m, pa)
          /\ docPre = FreshPage(m, pa)
    /\ docOps = <<>>
    /\ variant \in {"A", "B"}
    /\ timerCalls = <<>>
    /\ RunIdle
    /\ WlIdle
    /\ CoordIdle

\* tabs.executeScript(file: 'throttle-script.js') reaches the document.
InjectThrottle ==
    /\ Len(docOps) < MaxOps
    /\ doc' = ThrottleScript(doc)
    /\ docOps' = Append(docOps, "throttle")
    /\ UNCHANGED <<docPre, variant, timerCalls, frames, surfaces, wlVars, coordVars>>

\* tabs.executeScript(file: 'restore-script.js') reaches the document.
InjectRestore ==
    /\ Len(docOps) < MaxOps
    /\ doc' = RestoreScript(doc, variant)
    /\ docOps' = Append(docOps, "restore")
    /\ UNCHANGED <<docPre, variant, timerCalls, frames, surfaces, wlVars, coordVars>>

\* The tab reloads: a new document and a new content-script world.
Reload ==
    /\ Len(docOps) < MaxOps
    /\ doc' = docPre
    /\ docOps' = Append(docOps, "reload")
    /\ UNCHANGED <<docPre, variant, timerCalls, frames, surfaces, wlVars, coordVars>>

NextPage == InjectThrottle \/ InjectRestore \/ Reload

SpecPage == InitPage /\ [][NextPage]_vars

----------------------------------------------------------------------------
(* SpecDetach: the page removes media elements while it is throttled        *)

InitDetach ==
    /\ \E m \in [Elems -> {MediaElement(TRUE, pz, ap, FALSE, MediaPos) :
                              pz \in BOOLEAN, ap \in BOOLEAN}],
          pa \in BOOLEAN :
          /\ doc = FreshPage(m, pa)
          /\ docPre = FreshPage(m, pa)
    /\ docOps = <<>>
    /\ variant = "A"
    /\ timerCalls = <<>>
    /\ RunIdle
    /\ WlIdle
    /\ CoordIdle

\* Page code removes media element e from the document (element.remove()).
\* The MutationObserver of throttle-script.js 233-253 reads addedNodes only,
\* so the Media Snapshot list keeps its entry for e.
DetachElement(e) ==
    /\ Len(docOps) < MaxOps
    /\ doc.media[e].inDoc
    /\ doc' = [doc EXCEPT !.media[e].inDoc = FALSE]
    /\ docOps' = Append(docOps, "detach")
    /\ UNCHANGED <<docPre, variant, timerCalls, frames, surfaces, wlVars, coordVars>>

NextDetach ==
    \/ InjectThrottle
    \/ InjectRestore
    \/ \E e \in Elems : DetachElement(e)

SpecDetach == InitDetach /\ [][NextDetach]_vars

----------------------------------------------------------------------------
(* SpecLocked: documents whose own code made some of the timing properties  *)
(* of window non-configurable before the scripts arrive                     *)

InitLocked ==
    /\ \E l \in SUBSET {DefineOrder[i] : i \in DOMAIN DefineOrder}, pa \in BOOLEAN :
          /\ doc = [FreshPage(NoMedia, pa) EXCEPT !.locked = l]
          /\ docPre = doc
    /\ docOps = <<>>
    /\ variant = "A"
    /\ timerCalls = <<>>
    /\ RunIdle
    /\ WlIdle
    /\ CoordIdle

NextLocked == InjectThrottle \/ InjectRestore \/ Reload

SpecLocked == InitLocked /\ [][NextLocked]_vars

----------------------------------------------------------------------------
(* SpecTimer: the document's own code calls setTimeout and setInterval      *)

DelayNumbers ==
    {0 - 1, 0, 4, ONE_SHOT_FLOOR - 1, ONE_SHOT_FLOOR, ONE_SHOT_FLOOR + 1,
     REPEATING_FLOOR - 1, REPEATING_FLOOR, REPEATING_FLOOR + 1}

DelayArgs ==
    {JsNumber(n) : n \in DelayNumbers}
        \cup {JsNaN, JsUndefined, JsNull, JsString(50), JsStringNoNumber}

\* The document is fresh, throttled, or throttled and restored.
InitTimer ==
    /\ docPre = FreshPage(NoMedia, TRUE)
    /\ variant = "A"
    /\ docOps \in {<<>>, <<"throttle">>, <<"throttle", "restore">>}
    /\ doc = IF docOps = <<>> THEN docPre
             ELSE IF docOps = <<"throttle">> THEN ThrottleScript(docPre)
             ELSE RestoreScript(ThrottleScript(docPre), variant)
    /\ timerCalls = <<>>
    /\ RunIdle
    /\ WlIdle
    /\ CoordIdle

TimerCall(fn, f, delay) ==
    [fn |-> fn, throttled |-> doc.applied, requested |-> delay,
     passed |-> PassedDelay(f, delay)]

\* Page code calls window.setTimeout(cb, delay).
PageCallsSetTimeout ==
    /\ Len(timerCalls) < MaxCalls
    /\ \E delay \in DelayArgs :
          timerCalls' = Append(timerCalls, TimerCall("setTimeout", doc.setTimeout, delay))
    /\ UNCHANGED <<doc, docPre, docOps, variant, frames, surfaces, wlVars, coordVars>>

\* Page code calls window.setInterval(cb, delay).
PageCallsSetInterval ==
    /\ Len(timerCalls) < MaxCalls
    /\ \E delay \in DelayArgs :
          timerCalls' =
              Append(timerCalls, TimerCall("setInterval", doc.setInterval, delay))
    /\ UNCHANGED <<doc, docPre, docOps, variant, frames, surfaces, wlVars, coordVars>>

NextTimer == PageCallsSetTimeout \/ PageCallsSetInterval

SpecTimer == InitTimer /\ [][NextTimer]_vars

----------------------------------------------------------------------------
(* SpecFrames: animation-frame requests of a throttled document             *)

MaxFrames == 3

InitFrames ==
    /\ docPre = FreshPage(NoMedia, TRUE)
    /\ doc = ThrottleScript(docPre)
    /\ docOps = <<"throttle">>
    /\ variant \in {"A", "B"}
    /\ timerCalls = <<>>
    \* lastAnimationFrameTime starts at 0 (line 54): the interval has elapsed
    \* iff the document is at least MIN_FRAME_INTERVAL old
    /\ \E el \in BOOLEAN : frames = [NoFrames EXCEPT !.elapsed = el]
    /\ surfaces = NoSurfaces
    /\ WlIdle
    /\ CoordIdle

FramesUnchanged == UNCHANGED <<doc, docPre, docOps, variant, timerCalls, surfaces,
                               wlVars, coordVars>>

\* Page code calls window.requestAnimationFrame(callback) while the
\* replacement of throttle-script.js 61-88 is installed.
PageRequestsFrame ==
    /\ Head(doc.requestAnimationFrame) = "throttledRAF"
    /\ Len(frames.requests) < MaxFrames
    /\ LET fakeId == frames.nextRafId
           viaRaf == frames.elapsed
           entry  == [id |-> fakeId,
                      type |-> IF viaRaf THEN "raf" ELSE "timeout",
                      realId |-> IF viaRaf THEN frames.nextRealId ELSE 0,
                      mapped |-> TRUE, scheduled |-> TRUE, fired |-> 0,
                      cancelled |-> FALSE, lateFire |-> FALSE]
       IN  frames' = [frames EXCEPT
                        !.requests = Append(@, entry),
                        !.nextRafId = @ + 1,
                        !.nextRealId = IF viaRaf THEN @ + 1 ELSE @,
                        !.elapsed = IF viaRaf THEN FALSE ELSE @]
    /\ FramesUnchanged

\* Page code calls window.cancelAnimationFrame(id) while the replacement of
\* throttle-script.js 95-112 is installed.  With a map entry the real frame
\* or the timer under it is cancelled and the entry deleted; without one the
\* number goes to the original cancelAnimationFrame, which cancels the real
\* frame carrying that number.
PageCancelsFrame(id) ==
    /\ Head(doc.cancelAnimationFrame) = "mappedCancelRAF"
    /\ LET hit == {i \in DOMAIN frames.requests :
                     frames.requests[i].id = id /\ frames.requests[i].mapped}
           r == frames.requests
       IN  frames' = [frames EXCEPT !.requests =
              [i \in DOMAIN r |->
                 IF hit # {}
                 THEN IF i \in hit
                      THEN [r[i] EXCEPT !.scheduled = FALSE, !.mapped = FALSE,
                                        !.cancelled = (r[i].fired = 0)]
                      ELSE r[i]
                 ELSE IF r[i].type = "raf" /\ r[i].realId = id
                      THEN [r[i] EXCEPT !.scheduled = FALSE]
                      ELSE r[i]]]
    /\ frames' # frames
    /\ FramesUnchanged

\* The browser runs the real frame under request i (throttle-script.js 67:
\* the page's callback itself was handed to the original).
RealFrameFires(i) ==
    /\ i \in DOMAIN frames.requests
    /\ frames.requests[i].type = "raf"
    /\ frames.requests[i].scheduled
    /\ frames' = [frames EXCEPT !.requests[i].scheduled = FALSE,
                                !.requests[i].fired = @ + 1,
                                !.requests[i].lateFire = frames.restored]
    /\ FramesUnchanged

\* The deferred timer under request i expires (throttle-script.js 77-81).
DeferredTimerFires(i) ==
    /\ i \in DOMAIN frames.requests
    /\ frames.requests[i].type = "timeout"
    /\ frames.requests[i].scheduled
    /\ frames' = [frames EXCEPT !.requests[i].scheduled = FALSE,
                                !.requests[i].mapped = FALSE,
                                !.requests[i].fired = @ + 1,
                                !.requests[i].lateFire = frames.restored,
                                !.elapsed = FALSE]
    /\ FramesUnchanged

\* MIN_FRAME_INTERVAL passes without a frame.
FrameIntervalElapses ==
    /\ ~frames.elapsed
    /\ frames' = [frames EXCEPT !.elapsed = TRUE]
    /\ FramesUnchanged

\* tabs.executeScript(file: 'restore-script.js') reaches the document:
\* section 1 ends with window.__tabPowerSaverRAFIdMap.clear() (lines 40-44).
InjectRestoreFrames ==
    /\ Len(docOps) < MaxOps
    /\ doc' = RestoreScript(doc, variant)
    /\ docOps' = Append(docOps, "restore")
    /\ frames' = IF doc.applied /\ doc.originals.defined /\ doc.rafIdMap
                 THEN [frames EXCEPT
                         !.requests = [i \in DOMAIN frames.requests |->
                                         [frames.requests[i] EXCEPT !.mapped = FALSE]],
                         !.restored = TRUE]
                 ELSE frames
    /\ UNCHANGED <<docPre, variant, timerCalls, surfaces, wlVars, coordVars>>

NextFrames ==
    \/ PageRequestsFrame
    \/ \E id \in 1..MaxFrames : PageCancelsFrame(id)
    \/ \E i \in 1..MaxFrames : RealFrameFires(i)
    \/ \E i \in 1..MaxFrames : DeferredTimerFires(i)
    \/ FrameIntervalElapses
    \/ InjectRestoreFrames

SpecFrames == InitFrames /\ [][NextFrames]_vars

----------------------------------------------------------------------------
(* SpecCanvas: 2D canvas surfaces of one document                           *)

\* Faulty variant: the replacement getContext without the test of line 134.
throttledGetContextNoFlagTest(s) ==
    LET originalDraw == Bind(s.draw)
    IN  [s EXCEPT !.exists = TRUE,
                  !.draw = Wrap("throttledDraw", originalDraw),
                  !.stored = originalDraw,
                  !.flag = TRUE]

\* The body of the replacement getContext for type '2d' (throttle-script.js
\* 129-184) applied to surface s: the context is created on first use, and
\* its draw operations are replaced unless the context carries the flag.
throttledGetContext(s) ==
    LET originalDraw == Bind(s.draw)
    IN  IF s.flag THEN [s EXCEPT !.exists = TRUE]
        ELSE [s EXCEPT !.exists = TRUE,
                       !.draw = Wrap("throttledDraw", originalDraw),
                       !.stored = originalDraw,
                       !.flag = TRUE]

\* canvas.getContext('2d') through the binding g of
\* HTMLCanvasElement.prototype.getContext.
GetContext(g, s) ==
    IF Head(g) = "throttledGetContext" THEN throttledGetContext(s)
    ELSE [s EXCEPT !.exists = TRUE]

\* The number of replacements stacked in the draw operation f.
RECURSIVE Wrappers(_)
Wrappers(f) ==
    IF f = <<>> THEN 0
    ELSE (IF Head(f) = "throttledDraw" THEN 1 ELSE 0) + Wrappers(Tail(f))

\* One call of the draw operation f on surface s (throttle-script.js 142-176):
\* a replacement forwards to its original when the surface has no
\* canvasLastRender entry or MIN_CANVAS_RENDER_INTERVAL has passed since it,
\* and returns null otherwise.
RECURSIVE DrawThrough(_, _)
DrawThrough(f, s) ==
    IF Len(f) <= 1 THEN [s EXCEPT !.lastCall.outcome = "drawn"]
    ELSE IF Head(f) = "throttledDraw"
         THEN IF ~s.hasLast \/ s.elapsed
              THEN DrawThrough(Tail(f), [s EXCEPT !.hasLast = TRUE, !.elapsed = FALSE])
              ELSE [s EXCEPT !.lastCall.outcome = "suppressed"]
         ELSE DrawThrough(Tail(f), s)

\* restore-script.js 56-87 for one canvas of the document: the context is
\* fetched through the current getContext, and the stored operations are put
\* back when the context carries the flag.
RestoreSurface(g, s) ==
    LET x == GetContext(g, s)
    IN  IF x.flag
        THEN [x EXCEPT !.draw = IF IsDefined(x.stored) THEN x.stored ELSE @,
                       !.stored = Undefined,
                       !.flag = FALSE]
        ELSE x

InitCanvas ==
    /\ docPre = FreshPage(NoMedia, TRUE)
    /\ doc = docPre
    /\ docOps = <<>>
    /\ variant \in {"A", "B"}
    /\ timerCalls = <<>>
    /\ frames = NoFrames
    /\ surfaces = NoSurfaces
    /\ WlIdle
    /\ CoordIdle

\* Page code calls canvas.getContext('2d') on canvas c.
PageGetsContext(c) ==
    /\ surfaces' = [surfaces EXCEPT ![c] =
                      [GetContext(doc.getContext, surfaces[c]) EXCEPT
                          !.reacquired = @ \/ (surfaces[c].flag /\ doc.applied)]]
    /\ surfaces' # surfaces
    /\ UNCHANGED <<doc, docPre, docOps, variant, timerCalls, frames, wlVars, coordVars>>

\* Page code calls a draw operation of the context of canvas c.
PageDraws(c) ==
    /\ surfaces[c].exists
    /\ LET s == surfaces[c]
           called == [s EXCEPT !.lastCall =
                        [outcome |-> "none", wrappers |-> Wrappers(s.draw),
                         due |-> ~s.hasLast \/ s.elapsed]]
       IN  surfaces' = [surfaces EXCEPT ![c] = DrawThrough(s.draw, called)]
    /\ surfaces' # surfaces
    /\ UNCHANGED <<doc, docPre, docOps, variant, timerCalls, frames, wlVars, coordVars>>

\* MIN_CANVAS_RENDER_INTERVAL passes since the last render of canvas c.
RenderIntervalElapses(c) ==
    /\ surfaces[c].hasLast
    /\ ~surfaces[c].elapsed
    /\ surfaces' = [surfaces EXCEPT ![c].elapsed = TRUE]
    /\ UNCHANGED <<doc, docPre, docOps, variant, timerCalls, frames, wlVars, coordVars>>

\* Page code removes canvas c from the document and keeps using it.
CanvasDetached(c) ==
    /\ surfaces[c].inDoc
    /\ surfaces' = [surfaces EXCEPT ![c].inDoc = FALSE]
    /\ UNCHANGED <<doc, docPre, docOps, variant, timerCalls, frames, wlVars, coordVars>>

\* tabs.executeScript(file: 'restore-script.js') reaches the document:
\* section 2 walks document.querySelectorAll('canvas').
InjectRestoreCanvas ==
    /\ Len(docOps) < MaxOps
    /\ doc' = RestoreScript(doc, variant)
    /\ docOps' = Append(docOps, "restore")
    /\ surfaces' =
          IF doc.applied /\ ~RestoreThrows(doc) /\ IsDefined(doc.origCanvasGetContext)
          THEN [c \in Canvases |->
                  IF surfaces[c].inDoc THEN RestoreSurface(doc.getContext, surfaces[c])
                  ELSE surfaces[c]]
          ELSE surfaces
    /\ UNCHANGED <<docPre, variant, timerCalls, frames, wlVars, coordVars>>

\* The tab reloads: a new document with new canvases.
ReloadCanvas ==
    /\ Len(docOps) < MaxOps
    /\ doc' = docPre
    /\ docOps' = Append(docOps, "reload")
    /\ surfaces' = NoSurfaces
    /\ UNCHANGED <<docPre, variant, timerCalls, frames, wlVars, coordVars>>

NextCanvas ==
    \/ InjectThrottle
    \/ InjectRestoreCanvas
    \/ ReloadCanvas
    \/ \E c \in Canvases : PageGetsContext(c)
    \/ \E c \in Canvases : PageDraws(c)
    \/ \E c \in Canvases : RenderIntervalElapses(c)
    \/ \E c \in Canvases : CanvasDetached(c)

SpecCanvas == InitCanvas /\ [][NextCanvas]_vars

----------------------------------------------------------------------------
(* SpecInsert: the page inserts media elements while it is throttled        *)

MaxRecords == 1

InitInsert ==
    /\ \E m \in [Elems -> {MediaElement(ind, pz, FALSE, FALSE, MediaPos) :
                              ind \in BOOLEAN, pz \in BOOLEAN}] :
          /\ doc = FreshPage(m, TRUE)
          /\ docPre = FreshPage(m, TRUE)
    /\ docOps = <<>>
    /\ variant = "A"
    /\ timerCalls = <<>>
    /\ RunIdle
    /\ WlIdle
    /\ CoordIdle

\* Page code inserts media element e into the document, by itself or inside
\* a container (nested).  While the MutationObserver of throttle-script.js
\* 233-256 is connected, the insertion queues a record for it.
InsertElement(e, nested) ==
    /\ ~doc.media[e].inDoc
    /\ doc.mediaObserver => Len(doc.mutations) < MaxRecords
    /\ doc' = [doc EXCEPT
                 !.media[e].inDoc = TRUE,
                 !.mutations = IF doc.mediaObserver
                               THEN Append(@, [node |-> e, nested |-> nested])
                               ELSE @]
    /\ UNCHANGED <<docPre, docOps, variant, timerCalls, frames, surfaces, wlVars, coordVars>>

\* The observer's callback runs with the oldest queued record
\* (throttle-script.js 233-250): throttleMediaElement(node) for a media node,
\* node.querySelectorAll('video, audio').forEach(throttleMediaElement) for a
\* container.
ObserverDelivers ==
    /\ doc.mediaObserver
    /\ doc.mutations # <<>>
    /\ doc' = [throttleMediaElement(doc, Head(doc.mutations).node) EXCEPT
                 !.mutations = Tail(doc.mutations)]
    /\ UNCHANGED <<docPre, docOps, variant, timerCalls, frames, surfaces, wlVars, coordVars>>

NextInsert ==
    \/ InjectThrottle
    \/ InjectRestore
    \/ \E e \in Elems, nested \in BOOLEAN : InsertElement(e, nested)
    \/ \E e \in Elems : DetachElement(e)
    \/ ObserverDelivers

SpecInsert == InitInsert /\ [][NextInsert]_vars

----------------------------------------------------------------------------
(* SpecScroll: a scrolled document under the two scripts                    *)

MaxScroll == 2

InitScroll ==
    /\ \E x \in 0..MaxScroll, y \in 0..MaxScroll :
          doc = [FreshPage(NoMedia, TRUE) EXCEPT !.scroll = [x |-> x, y |-> y]]
    /\ docPre = FreshPage(NoMedia, TRUE)
    /\ docOps = <<>>
    /\ variant \in {"A", "B"}
    /\ timerCalls = <<>>
    /\ RunIdle
    /\ WlIdle
    /\ CoordIdle

\* Page code or the user scrolls the document to (x, y).
PageScrolls(x, y) ==
    /\ doc.scroll # [x |-> x, y |-> y]
    /\ doc' = [doc EXCEPT !.scroll = [x |-> x, y |-> y]]
    /\ UNCHANGED <<docPre, docOps, variant, timerCalls, frames, surfaces, wlVars, coordVars>>

NextScroll ==
    \/ InjectThrottle
    \/ InjectRestore
    \/ Reload
    \/ \E x \in 0..MaxScroll, y \in 0..MaxScroll : PageScrolls(x, y)

SpecScroll == InitScroll /\ [][NextScroll]_vars

----------------------------------------------------------------------------
(* Coordinator actions.  Environment events (the user, the browser) spend   *)
(* one unit of budget each; callbacks of operations in flight do not.       *)

Take(kind, t) == pending[<<kind, t>>] > 0

BlankPage == FreshPage(NoMedia, TRUE)

Tab(active, pinned, audible, url) ==
    [exists |-> TRUE, active |-> active, pinned |-> pinned, audible |-> audible,
     url |-> url]

ClosedTab == [Tab(FALSE, FALSE, FALSE, UrlAbout) EXCEPT !.exists = FALSE]

\* background.js 40-42: the allow-list read at start-up returns.
StorageSitesLoaded ==
    /\ Take("storageSites", 0)
    /\ \E list \in SiteChoices : sites' = list
    /\ pending' = DelOp(pending, "storageSites", 0)
    /\ UNCHANGED <<powerSavingEnabled, throttledTabs, tabs, pages, listeners,
                   monitorHandle, liveIntervals, budget, injectFailed, wlVars, docVars>>

\* background.js 55-70: the saved flag returns (after the allow-list, both
\* reads being answered in the order they were issued).
StorageEnabledLoaded ==
    /\ Take("storageEnabled", 0)
    /\ ~Take("storageSites", 0)
    /\ \E saved \in BOOLEAN :
          /\ powerSavingEnabled' = saved
          /\ IF saved
             THEN /\ monitorHandle' = startTabMonitoring(monitorHandle, liveIntervals)[1]
                  /\ liveIntervals' = startTabMonitoring(monitorHandle, liveIntervals)[2]
                  /\ pending' = detectAllBackgroundTabs(
                                    DelOp(pending, "storageEnabled", 0), saved)
             ELSE /\ UNCHANGED <<monitorHandle, liveIntervals>>
                  /\ pending' = DelOp(pending, "storageEnabled", 0)
    /\ listeners' = TRUE
    /\ UNCHANGED <<throttledTabs, sites, tabs, pages, budget,
                   injectFailed, wlVars, docVars>>

\* background.js 45-47: storage.onChanged for whitelistedSites.
StorageChanged ==
    /\ budget > 0
    /\ budget' = budget - 1
    /\ \E list \in SiteChoices : list # sites /\ sites' = list
    /\ UNCHANGED <<powerSavingEnabled, throttledTabs, tabs, pages, pending, listeners,
                   monitorHandle, liveIntervals, injectFailed, wlVars, docVars>>

\* background.js 359-379: the toolbar button.
BrowserActionClicked ==
    /\ listeners
    /\ budget > 0
    /\ budget' = budget - 1
    /\ ApplyToggle(~powerSavingEnabled)
    /\ UNCHANGED <<throttledTabs, sites, tabs, pages, listeners,
                   injectFailed, wlVars, docVars>>

\* background.js 135-164: the popup's power_saving_toggle message.
ToggleMessage ==
    /\ listeners
    /\ budget > 0
    /\ budget' = budget - 1
    /\ \E enabled \in BOOLEAN : ApplyToggle(enabled)
    /\ UNCHANGED <<throttledTabs, sites, tabs, pages, listeners,
                   injectFailed, wlVars, docVars>>

\* background.js 122-127: runtime.onStartup arms the 2 s timer.
BrowserStartup ==
    /\ listeners
    /\ budget > 0
    /\ budget' = budget - 1
    /\ pending' = IF powerSavingEnabled THEN AddOp(pending, "startupTimer", 0)
                  ELSE pending
    /\ InFlight(pending') <= MaxPending
    /\ UNCHANGED <<powerSavingEnabled, throttledTabs, sites, tabs, pages, listeners,
                   monitorHandle, liveIntervals, injectFailed, wlVars, docVars>>

\* background.js 126: the 2 s timer fires: detectAllBackgroundTabs().
StartupTimerFired ==
    /\ Take("startupTimer", 0)
    /\ pending' = detectAllBackgroundTabs(DelOp(pending, "startupTimer", 0),
                                          powerSavingEnabled)
    /\ UNCHANGED <<powerSavingEnabled, throttledTabs, sites, tabs, pages, listeners,
                   monitorHandle, liveIntervals, budget, injectFailed, wlVars, docVars>>

\* The interval of startTabMonitoring fires: detectAllBackgroundTabs().
SweepTick ==
    /\ liveIntervals > 0
    /\ pending' = detectAllBackgroundTabs(pending, powerSavingEnabled)
    /\ pending' # pending
    /\ InFlight(pending') <= MaxPending
    /\ UNCHANGED <<powerSavingEnabled, throttledTabs, sites, tabs, pages, listeners,
                   monitorHandle, liveIntervals, budget, injectFailed, wlVars, docVars>>

\* background.js 197-228: the tab query of a sweep returns.
SweepQueryResult ==
    /\ Take("sweepQuery", 0)
    /\ pending' = SweepTabs(DelOp(pending, "sweepQuery", 0), 1)
    /\ InFlight(pending') <= MaxPending
    /\ UNCHANGED <<powerSavingEnabled, throttledTabs, sites, tabs, pages, listeners,
                   monitorHandle, liveIntervals, budget, injectFailed, wlVars, docVars>>

\* background.js 152-158, 371-377: the tab query of a switch-off returns.
OffQueryResult ==
    /\ Take("offQuery", 0)
    /\ pending' = RestoreTracked(DelOp(pending, "offQuery", 0), 1)
    /\ InFlight(pending') <= MaxPending
    /\ UNCHANGED <<powerSavingEnabled, throttledTabs, sites, tabs, pages, listeners,
                   monitorHandle, liveIntervals, budget, injectFailed, wlVars, docVars>>

\* background.js 270-298: tabs.get of throttleTab returns and, for an
\* accessible tab, the marker check is sent.
ThrottleGetResult(t) ==
    /\ Take("getThrottle", t)
    /\ pending' = IF ~tabs[t].exists \/ ~isTabAccessible(tabs[t])
                  THEN DelOp(pending, "getThrottle", t)
                  ELSE AddOp(DelOp(pending, "getThrottle", t), "check", t)
    /\ UNCHANGED <<powerSavingEnabled, throttledTabs, sites, tabs, pages, listeners,
                   monitorHandle, liveIntervals, budget, injectFailed, wlVars, docVars>>

\* Faulty variant of the marker-check callback: the result is ignored and the
\* script is injected.
CheckResultAlwaysInject(t) ==
    /\ Take("check", t)
    /\ pending' = AddOp(DelOp(pending, "check", t), "inject", t)
    /\ UNCHANGED <<powerSavingEnabled, throttledTabs, sites, tabs, pages, listeners,
                   monitorHandle, liveIntervals, budget, injectFailed, wlVars, docVars>>

\* background.js 281-297: the marker check returns.
CheckResult(t) ==
    /\ Take("check", t)
    /\ IF CanInject(t) /\ pages[t].applied
       THEN /\ throttledTabs' = throttledTabs \cup {t}
            /\ pending' = DelOp(pending, "check", t)
       ELSE /\ pending' = AddOp(DelOp(pending, "check", t), "inject", t)
            /\ UNCHANGED throttledTabs
    /\ UNCHANGED <<powerSavingEnabled, sites, tabs, pages, listeners,
                   monitorHandle, liveIntervals, budget, injectFailed, wlVars, docVars>>

\* The host platform carries out executeScript(file: 'throttle-script.js')
\* of background.js 304: the script is evaluated in the tab's document and
\* the outcome travels back.  A script rejected for redeclaring its
\* constants is reported as an error by some hosts and not by others.
ThrottleScriptRuns(t) ==
    /\ Take("inject", t)
    /\ IF ~CanInject(t)
       THEN /\ pending' = AddOp(DelOp(pending, "inject", t), "injectErr", t)
            /\ UNCHANGED pages
       ELSE /\ pages' = [pages EXCEPT ![t] = ThrottleScript(@)]
            /\ \E outcome \in IF ThrottleScriptThrows(pages[t])
                              THEN {"injectOk", "injectErr"} ELSE {"injectOk"} :
                  pending' = AddOp(DelOp(pending, "inject", t), outcome, t)
    /\ UNCHANGED <<powerSavingEnabled, throttledTabs, sites, tabs, listeners,
                   monitorHandle, liveIntervals, budget, injectFailed, wlVars, docVars>>

\* background.js 306-319: the callback of the injection, without lastError.
InjectSucceeded(t) ==
    /\ Take("injectOk", t)
    /\ throttledTabs' = throttledTabs \cup {t}
    /\ pending' = DelOp(pending, "injectOk", t)
    /\ UNCHANGED <<powerSavingEnabled, sites, tabs, pages, listeners,
                   monitorHandle, liveIntervals, budget, injectFailed, wlVars, docVars>>

\* The throttleTab calls for tab t that have not yet run to their last callback.
ThrottleInFlight(pend, t) ==
    pend[<<"getThrottle", t>>] + pend[<<"check", t>>] + pend[<<"inject", t>>]
        + pend[<<"injectOk", t>>] + pend[<<"injectErr", t>>]

\* background.js 307-314: the callback of the injection, with lastError. The
\* history records the failure when no other throttleTab call for the tab is
\* still running, so that every injection issued for a recorded tab belongs to
\* a call made after the failure.
InjectFailed(t) ==
    /\ Take("injectErr", t)
    /\ pending' = DelOp(pending, "injectErr", t)
    /\ injectFailed' = IF ThrottleInFlight(pending', t) = 0
                       THEN injectFailed \cup {t} ELSE injectFailed
    /\ UNCHANGED <<powerSavingEnabled, throttledTabs, sites, tabs, pages, listeners,
                   monitorHandle, liveIntervals, budget, wlVars, docVars>>

\* background.js 330-339: tabs.get of restoreTab returns.
RestoreGetResult(t) ==
    /\ Take("getRestore", t)
    /\ IF ~tabs[t].exists \/ ~isTabAccessible(tabs[t])
       THEN /\ throttledTabs' = throttledTabs \ {t}
            /\ pending' = DelOp(pending, "getRestore", t)
       ELSE /\ pending' = AddOp(DelOp(pending, "getRestore", t), "restoreInject", t)
            /\ UNCHANGED throttledTabs
    /\ UNCHANGED <<powerSavingEnabled, sites, tabs, pages, listeners,
                   monitorHandle, liveIntervals, budget, injectFailed, wlVars, docVars>>

\* Faulty variant of the restore callback: the tab is dropped only when the
\* injection succeeded.
RestoreResultOnSuccess(t) ==
    /\ Take("restoreInject", t)
    /\ pages' = IF CanInject(t) THEN [pages EXCEPT ![t] = RestoreScript(@, "A")]
                ELSE pages
    /\ throttledTabs' = IF CanInject(t) THEN throttledTabs \ {t} ELSE throttledTabs
    /\ pending' = DelOp(pending, "restoreInject", t)
    /\ UNCHANGED <<powerSavingEnabled, sites, tabs, listeners,
                   monitorHandle, liveIntervals, budget, injectFailed, wlVars, docVars>>

\* background.js 338-349: restore-script.js is evaluated in the tab when the
\* host allows it, and the callback drops the tab either way.
RestoreResult(t) ==
    /\ Take("restoreInject", t)
    /\ pages' = IF CanInject(t) THEN [pages EXCEPT ![t] = RestoreScript(@, "A")]
                ELSE pages
    /\ throttledTabs' = throttledTabs \ {t}
    /\ pending' = DelOp(pending, "restoreInject", t)
    /\ UNCHANGED <<powerSavingEnabled, sites, tabs, listeners,
                   monitorHandle, liveIntervals, budget, injectFailed, wlVars, docVars>>

\* The user switches to tab t; background.js 232-237 starts the 100 ms timer.
TabActivated(t) ==
    /\ budget > 0
    /\ budget' = budget - 1
    /\ tabs[t].exists /\ ~tabs[t].active
    /\ tabs' = [tabs EXCEPT ![t].active = TRUE]
    /\ pending' = IF listeners THEN AddOp(pending, "activation", t) ELSE pending
    /\ InFlight(pending') <= MaxPending
    /\ UNCHANGED <<powerSavingEnabled, throttledTabs, sites, pages, listeners,
                   monitorHandle, liveIntervals, injectFailed, wlVars, docVars>>

\* The user switches away from tab t.
TabDeactivated(t) ==
    /\ budget > 0
    /\ budget' = budget - 1
    /\ tabs[t].exists /\ tabs[t].active
    /\ tabs' = [tabs EXCEPT ![t].active = FALSE]
    /\ UNCHANGED <<powerSavingEnabled, throttledTabs, sites, pages, pending, listeners,
                   monitorHandle, liveIntervals, injectFailed, wlVars, docVars>>

\* Faulty variant: the lookup callback with the test of tab.active inverted.
ActivationLookupHidden(t) ==
    /\ Take("activation", t)
    /\ pending' = IF tabs[t].exists /\ ~tabs[t].active /\ t \in throttledTabs
                  THEN restoreTab(DelOp(pending, "activation", t), t)
                  ELSE DelOp(pending, "activation", t)
    /\ UNCHANGED <<powerSavingEnabled, throttledTabs, sites, tabs, pages, listeners,
                   monitorHandle, liveIntervals, budget, injectFailed, wlVars, docVars>>

\* background.js 237-246: the timer fired and tabs.get returned.
ActivationLookup(t) ==
    /\ Take("activation", t)
    /\ pending' = IF tabs[t].exists /\ tabs[t].active /\ t \in throttledTabs
                  THEN restoreTab(DelOp(pending, "activation", t), t)
                  ELSE DelOp(pending, "activation", t)
    /\ UNCHANGED <<powerSavingEnabled, throttledTabs, sites, tabs, pages, listeners,
                   monitorHandle, liveIntervals, budget, injectFailed, wlVars, docVars>>

\* Faulty variant of the listener: the pinned / audible test of line 106 is
\* missing.
onUpdatedCompleteNoFlags(pend, t) ==
    IF ~powerSavingEnabled THEN pend
    ELSE IF tabs'[t].active
         THEN (IF t \in throttledTabs THEN restoreTab(pend, t) ELSE pend)
    ELSE IF ~isTabAccessible(tabs'[t]) THEN pend
    ELSE IF t \in throttledTabs THEN pend
    ELSE IF isWhitelisted(tabs'[t].url, sites) THEN pend
    ELSE throttleTab(pend, t)

\* background.js 81-113: the onUpdated listener for a load that completed.
onUpdatedComplete(pend, t) ==
    IF ~powerSavingEnabled THEN pend
    ELSE IF tabs'[t].active
         THEN (IF t \in throttledTabs THEN restoreTab(pend, t) ELSE pend)
    ELSE IF ~isTabAccessible(tabs'[t]) THEN pend
    ELSE IF t \in throttledTabs THEN pend
    ELSE IF tabs'[t].pinned \/ tabs'[t].audible THEN pend
    ELSE IF isWhitelisted(tabs'[t].url, sites) THEN pend
    ELSE throttleTab(pend, t)

\* Tab t finishes loading url (a navigation, or a reload of the same URL):
\* a new document replaces the old one and onUpdated reports 'complete'.
TabLoaded(t, url) ==
    /\ budget > 0
    /\ budget' = budget - 1
    /\ tabs[t].exists
    /\ tabs' = [tabs EXCEPT ![t].url = url]
    /\ pages' = [pages EXCEPT ![t] = BlankPage]
    /\ pending' = IF listeners THEN onUpdatedComplete(pending, t) ELSE pending
    /\ InFlight(pending') <= MaxPending
    /\ injectFailed' = injectFailed \ {t}
    /\ UNCHANGED <<powerSavingEnabled, throttledTabs, sites, listeners,
                   monitorHandle, liveIntervals, wlVars, docVars>>

\* The user pins or unpins tab t, or the tab starts or stops playing sound.
TabFlagsChanged(t) ==
    /\ budget > 0
    /\ budget' = budget - 1
    /\ tabs[t].exists
    /\ \/ tabs' = [tabs EXCEPT ![t].pinned = ~@]
       \/ tabs' = [tabs EXCEPT ![t].audible = ~@]
    /\ UNCHANGED <<powerSavingEnabled, throttledTabs, sites, pages, pending, listeners,
                   monitorHandle, liveIntervals, injectFailed, wlVars, docVars>>

\* Faulty variant: a listener that returns early while power saving is off.
onRemovedIfEnabled(set, t) == IF powerSavingEnabled THEN set \ {t} ELSE set

\* background.js 116-119: the onRemoved listener.
onRemoved(set, t) == set \ {t}

\* Tab t is closed.
TabRemoved(t) ==
    /\ budget > 0
    /\ budget' = budget - 1
    /\ tabs[t].exists
    /\ tabs' = [tabs EXCEPT ![t].exists = FALSE]
    /\ throttledTabs' = IF listeners THEN onRemoved(throttledTabs, t)
                        ELSE throttledTabs
    /\ injectFailed' = injectFailed \ {t}
    /\ UNCHANGED <<powerSavingEnabled, sites, pages, pending, listeners,
                   monitorHandle, liveIntervals, wlVars, docVars>>

Callbacks ==
    \/ StorageSitesLoaded
    \/ StorageEnabledLoaded
    \/ SweepQueryResult
    \/ OffQueryResult
    \/ StartupTimerFired
    \/ \E t \in Tabs :
          \/ ThrottleGetResult(t)
          \/ CheckResult(t)
          \/ ThrottleScriptRuns(t)
          \/ InjectSucceeded(t)
          \/ InjectFailed(t)
          \/ RestoreGetResult(t)
          \/ RestoreResult(t)
          \/ ActivationLookup(t)

Events ==
    \/ StorageChanged
    \/ BrowserActionClicked
    \/ ToggleMessage
    \/ BrowserStartup
    \/ SweepTick
    \/ \E t \in Tabs :
          \/ TabActivated(t)
          \/ TabDeactivated(t)
          \/ TabFlagsChanged(t)
          \/ TabRemoved(t)
          \/ \E url \in TabUrls : TabLoaded(t, url)

InitCoord ==
    /\ powerSavingEnabled = FALSE
    /\ throttledTabs = {}
    /\ sites = {}
    /\ tabs \in [Tabs -> {Tab(a, FALSE, FALSE, u) : a \in BOOLEAN, u \in TabUrls}
                              \cup {ClosedTab}]
    /\ \A t \in Tabs : tabs[t].exists <=> t = Studied
    /\ pages = [t \in Tabs |-> BlankPage]
    /\ pending = [NoPending EXCEPT ![<<"storageSites", 0>>] = 1,
                                   ![<<"storageEnabled", 0>>] = 1]
    /\ listeners = FALSE
    /\ monitorHandle = FALSE
    /\ liveIntervals = 0
    /\ budget = MaxEnv
    /\ injectFailed = {}

Init == InitCoord /\ WlIdle /\ DocIdle

Next == Callbacks \/ Events

Spec == Init /\ [][Next]_vars

\* The callbacks of the restore path are eventually delivered: the host
\* platform fires the 100 ms timer and answers each tab lookup and each
\* injection of the restore script.  (One tab is open, so the disjunction
\* over the tabs is that tab's callback.)
CallbackFairness ==
    /\ WF_vars(\E t \in Tabs : ActivationLookup(t))
    /\ WF_vars(\E t \in Tabs : RestoreGetResult(t))
    /\ WF_vars(\E t \in Tabs : RestoreResult(t))

SpecLive == Init /\ [][Next]_vars /\ CallbackFairness

----------------------------------------------------------------------------
(* SpecSweep: one run of detectAllBackgroundTabs over a population of       *)
(* NumTabs open tabs with arbitrary flags, from the state the start-up      *)
(* callback leaves when the saved flag is set: power saving on, the set     *)
(* empty, the tab query of the first sweep in flight.                       *)

InitSweep ==
    /\ powerSavingEnabled = TRUE
    /\ throttledTabs = {}
    /\ sites \in SiteChoices
    /\ tabs \in [Tabs -> {Tab(a, p, au, u) :
                            a \in BOOLEAN, p \in BOOLEAN, au \in BOOLEAN,
                            u \in TabUrls}]
    \* a document may still carry the marker of an earlier coordinator run
    /\ pages \in [Tabs -> {BlankPage, ThrottleScript(BlankPage)}]
    /\ \A t \in Tabs : pages[t].applied => CanInject(t)
    /\ pending = [NoPending EXCEPT ![<<"sweepQuery", 0>>] = 1]
    /\ listeners = TRUE
    /\ monitorHandle = TRUE
    /\ liveIntervals = 1
    /\ budget = 0
    /\ injectFailed = {}
    /\ WlIdle /\ DocIdle

NextSweep ==
    \/ SweepQueryResult
    \/ \E t \in Tabs :
          \/ ThrottleGetResult(t)
          \/ CheckResult(t)
          \/ ThrottleScriptRuns(t)
          \/ InjectSucceeded(t)
          \/ InjectFailed(t)

SpecSweep == InitSweep /\ [][NextSweep]_vars

----------------------------------------------------------------------------
(* SpecReconcile: one sweep over a population in which some tabs are        *)
(* already tracked.  Each tracked tab was throttled earlier (its document   *)
(* carries the marker); its flags and the allow-list are whatever they have *)
(* become since.                                                            *)

InitReconcile ==
    /\ powerSavingEnabled = TRUE
    /\ sites \in SiteChoices
    /\ tabs \in [Tabs -> {Tab(a, p, au, u) :
                            a \in BOOLEAN, p \in BOOLEAN, au \in BOOLEAN,
                            u \in TabUrls}]
    /\ throttledTabs \in SUBSET {t \in Tabs : CanInject(t)}
    /\ pages = [t \in Tabs |-> IF t \in throttledTabs THEN ThrottleScript(BlankPage)
                                ELSE BlankPage]
    /\ pending = [NoPending EXCEPT ![<<"sweepQuery", 0>>] = 1]
    /\ listeners = TRUE
    /\ monitorHandle = TRUE
    /\ liveIntervals = 1
    /\ budget = 0
    /\ injectFailed = {}
    /\ WlIdle /\ DocIdle

NextReconcile ==
    \/ SweepQueryResult
    \/ \E t \in Tabs :
          \/ ThrottleGetResult(t)
          \/ CheckResult(t)
          \/ ThrottleScriptRuns(t)
          \/ InjectSucceeded(t)
          \/ InjectFailed(t)
          \/ RestoreGetResult(t)
          \/ RestoreResult(t)

SpecReconcile == InitReconcile /\ [][NextReconcile]_vars

----------------------------------------------------------------------------
(* Properties of the injected scripts (SpecPage) *)

\* The contexts a sweep is meant to throttle.
Eligible(t) ==
    /\ tabs[t].exists
    /\ isTabAccessible(tabs[t])
    /\ ~tabs[t].active /\ ~tabs[t].pinned /\ ~tabs[t].audible
    /\ ~isWhitelisted(tabs[t].url, sites)

SweepDone == InFlight(pending) = 0

\* C1: once the sweep and every callback it started have completed, and the
\* host accepted the injection into every context the sweep selects, the
\* throttled set is exactly the set of accessible, hidden, unpinned, silent,
\* non-exempt contexts.
C1_SweepConverges ==
    (SweepDone /\ \A t \in Tabs : Eligible(t) => CanInject(t))
        => throttledTabs = {t \in Tabs : Eligible(t)}

C1_Witness ==
    /\ SweepDone
    /\ \A t \in Tabs : Eligible(t) => CanInject(t)
    /\ throttledTabs # {}
    /\ \E t \in Tabs :
          /\ t \notin throttledTabs
          /\ isTabAccessible(tabs[t])
          /\ ~tabs[t].active /\ ~tabs[t].pinned /\ ~tabs[t].audible
          /\ isWhitelisted(tabs[t].url, sites)

Background(t) == tabs[t].exists /\ ~tabs[t].active

Exempt(t) == isWhitelisted(tabs[t].url, sites)

\* C8: a step taken while a background context is exempt neither adds the
\* context to the throttled set nor sets the marker of its document.
C8_ExemptNeverThrottled ==
    [][\A t \in Tabs :
          (Background(t) /\ Exempt(t))
              => /\ t \in throttledTabs' => t \in throttledTabs
                 /\ pages'[t].applied => pages[t].applied]_vars

Floored(f) == \E i \in 1..Len(f) : f[i] = "floorTimeout"

ActivatedWhileThrottled(t) ==
    /\ tabs[t].exists /\ tabs[t].active
    /\ t \in throttledTabs
    /\ Take("activation", t)

Restored(t) ==
    /\ t \notin throttledTabs
    /\ tabs[t].exists => ~Floored(pages[t].setTimeout)

C10_RemovedTabDropped ==
    [][\A t \in Tabs :
          (tabs[t].exists /\ ~tabs'[t].exists) => t \notin throttledTabs']_vars

C10_Witness ==
    /\ ~tabs[Studied].exists
    /\ pages[Studied].applied
    /\ Studied \notin throttledTabs
    /\ ~powerSavingEnabled
    /\ InFlight(pending) = 0

\* C11 as stated: once power saving is off and every call in flight has been
\* answered, the throttled set is empty.
C11_DisabledSetEmpty ==
    (~powerSavingEnabled /\ InFlight(pending) = 0) => throttledTabs = {}

\* C12: every call of restoreTab(t), once its tabs.get is in flight or its
\* injection is in flight, is followed by a state with t outside the throttled
\* set, whether the lookup or the injection fails or not.
C12_RestoreAlwaysDrops ==
    \A t \in Tabs :
        (Take("getRestore", t) \/ Take("restoreInject", t)) ~> (t \notin throttledTabs)

\* A restore injection is in flight for a member whose host refuses scripts.
C12_Witness ==
    /\ Take("restoreInject", Studied)
    /\ Studied \in throttledTabs
    /\ tabs[Studied].exists
    /\ ~CanInject(Studied)

\* C13 as stated: once the throttle injection into a tab has failed, no later
\* sweep or load-complete event leads to another throttle injection for that
\* tab while it stays on the same document.
C13_NoRetryAfterFailure ==
    [][\A t \in injectFailed :
          pending'[<<"inject", t>>] <= pending[<<"inject", t>>]]_vars

\* C14: at most one sweep interval is live in every reachable state, and none
\* is live while power saving is off.
C14_SingleSweepTimer ==
    /\ liveIntervals <= 1
    /\ ~powerSavingEnabled => liveIntervals = 0

\* Power saving was on (a tab is tracked), was switched off (its tab query is
\* still in flight) and is on again with its first sweep in flight.
C14_Witness ==
    /\ powerSavingEnabled
    /\ liveIntervals = 1
    /\ Take("offQuery", 0) /\ Take("sweepQuery", 0)
    /\ throttledTabs # {}
    /\ budget = MaxEnv - 2

\* C18 as stated, for a tab that is still open: a step adds the tab to the
\* throttled set only while power saving is on and the tab is hidden.
C18_NoStaleAdd ==
    [][\A t \in Tabs :
          (t \in throttledTabs' /\ t \notin throttledTabs /\ tabs[t].exists)
              => (powerSavingEnabled /\ ~tabs[t].active)]_vars

\* C19 as stated: the throttle script is never injected into a document that
\* already carries the marker, that is, never a second time with no restore
\* or reload in between.
C19_InjectedOnce ==
    [][\A t \in Tabs :
          (pending'[<<"inject", t>>] < pending[<<"inject", t>>] /\ CanInject(t))
              => ~pages[t].applied]_vars

\* C20: when the marker check of throttleTab returns for a tab that is absent
\* from the throttled set and whose document carries the marker, the tab is
\* added to the set, no injection is issued and the document is left alone.
C20_MarkerTrusted ==
    [][\A t \in Tabs :
          (/\ pending'[<<"check", t>>] < pending[<<"check", t>>]
           /\ t \notin throttledTabs
           /\ CanInject(t) /\ pages[t].applied)
              => /\ t \in throttledTabs'
                 /\ pending'[<<"inject", t>>] = pending[<<"inject", t>>]
                 /\ pages' = pages]_vars

\* throttleTab has reached its marker check for a tab that is absent from the
\* set while its document carries the marker.
C20_Witness ==
    \E t \in Tabs :
        /\ Take("check", t)
        /\ t \notin throttledTabs
        /\ CanInject(t) /\ pages[t].applied

\* Tab t is tracked as throttled and should be throttled, but its document
\* carries no marker (it was replaced by a reload or a navigation).
Desynced(t) ==
    /\ powerSavingEnabled
    /\ t \in throttledTabs
    /\ Eligible(t) /\ CanInject(t)
    /\ ~pages[t].applied

\* C21 as stated: when the tab query of a sweep is answered while a tab is
\* tracked without a marker, the sweep starts a throttle call for that tab.
C21_DesyncDetected ==
    [][\A t \in Tabs :
          (pending'[<<"sweepQuery", 0>>] < pending[<<"sweepQuery", 0>>] /\ Desynced(t))
              => ThrottleInFlight(pending', t) > 0]_vars

\* C34 as stated: while power saving is off, no step starts a throttleTab
\* call: neither the answer to the tab query of a sweep that was pending when
\* the mode was switched off, nor a load-complete event.
C34_NoThrottleWhileDisabled ==
    [][\A t \in Tabs :
          ~powerSavingEnabled
              => pending'[<<"getThrottle", t>>] <= pending[<<"getThrottle", t>>]]_vars

\* C35 as stated: whenever a step adds an open tab to the throttled set, the
\* tab's document carries the marker at that moment; and the callbacks of a
\* failed lookup, of a lookup that found a restricted URL, and of a failed
\* injection add nothing.
C35_MembersWereMarked ==
    [][\A t \in Tabs :
          /\ (t \in throttledTabs' /\ t \notin throttledTabs /\ tabs[t].exists)
                => pages[t].applied
          /\ (\/ pending'[<<"getThrottle", t>>] < pending[<<"getThrottle", t>>]
                  /\ ~(tabs[t].exists /\ isTabAccessible(tabs[t]))
              \/ pending'[<<"injectErr", t>>] < pending[<<"injectErr", t>>])
                => (t \in throttledTabs' => t \in throttledTabs)]_vars

\* Tab t is tracked as throttled, stays in the background, and is pinned,
\* audible or exempt.
StaleMember(t) ==
    /\ powerSavingEnabled
    /\ t \in throttledTabs
    /\ tabs[t].exists /\ isTabAccessible(tabs[t]) /\ ~tabs[t].active
    /\ (tabs[t].pinned \/ tabs[t].audible \/ Exempt(t))

\* C22 as stated: once a sweep and every callback it started have completed,
\* no tracked background tab is pinned, audible or exempt.
C22_StaleMemberRestored ==
    SweepDone => \A t \in Tabs : ~StaleMember(t)

\* C23 as stated: once a sweep and every callback it started have completed,
\* no accessible visible tab is tracked, whether or not its domain is in the
\* allow-list.
C23_VisibleMemberRestored ==
    SweepDone =>
        \A t \in Tabs :
            (tabs[t].exists /\ isTabAccessible(tabs[t]) /\ tabs[t].active)
                => t \notin throttledTabs

\* A step in which tab t finished loading a document: an environment event
\* that changed the tab's URL or replaced a document the scripts had touched.
LoadCompleted(t) ==
    /\ budget' < budget
    /\ tabs[t].exists /\ tabs'[t].exists
    /\ \/ tabs'[t].url # tabs[t].url
       \/ pages[t] # BlankPage /\ pages'[t] = BlankPage

\* The load-complete handler is the only listener of an environment event
\* that calls throttleTab or restoreTab at once.
HandlerThrottles(t) ==
    budget' < budget /\ pending'[<<"getThrottle", t>>] > pending[<<"getThrottle", t>>]

HandlerRestores(t) ==
    budget' < budget /\ pending'[<<"getRestore", t>>] > pending[<<"getRestore", t>>]

\* The handler throttles only an eligible tab outside the set, with power
\* saving on.
ThrottlesOnlyEligible(t) ==
    HandlerThrottles(t) =>
        /\ powerSavingEnabled
        /\ ~tabs'[t].active
        /\ isTabAccessible(tabs'[t])
        /\ ~tabs'[t].pinned /\ ~tabs'[t].audible
        /\ ~isWhitelisted(tabs'[t].url, sites)
        /\ t \notin throttledTabs

\* C24 as stated: the load-complete handler throttles only an eligible tab
\* outside the set with power saving on; for a visible tab it never throttles,
\* and it restores the tab exactly when the tab is in the set.
C24_LoadCompleteHandler ==
    [][\A t \in Tabs :
          /\ ThrottlesOnlyEligible(t)
          /\ (LoadCompleted(t) /\ listeners /\ tabs'[t].active)
                => /\ ~HandlerThrottles(t)
                   /\ HandlerRestores(t) <=> t \in throttledTabs]_vars

\* C24, amended: the same, the visible tab being restored exactly when it is
\* in the set and power saving is on.
C24_LoadCompleteHandlerWhileEnabled ==
    [][\A t \in Tabs :
          /\ ThrottlesOnlyEligible(t)
          /\ (LoadCompleted(t) /\ listeners /\ tabs'[t].active)
                => /\ ~HandlerThrottles(t)
                   /\ HandlerRestores(t) <=> (powerSavingEnabled /\ t \in throttledTabs)]_vars

\* A visible tracked tab has just finished loading and its restore is in
\* flight: only the load-complete event has been spent.
C24_Witness ==
    /\ powerSavingEnabled
    /\ tabs[Studied].exists /\ tabs[Studied].active
    /\ Studied \in throttledTabs
    /\ pages[Studied] = BlankPage
    /\ Take("getRestore", Studied)
    /\ ~Take("sweepQuery", 0)
    /\ budget = MaxEnv - 2

Bindings(p) ==
    <<p.setTimeout, p.setInterval, p.requestAnimationFrame, p.cancelAnimationFrame,
      p.getContext, p.ResizeObserver, p.IntersectionObserver, p.Worker>>

InterceptRecord(p) ==
    <<p.originals, p.origCanvasGetContext, p.origResizeObserver,
      p.origIntersectionObserver, p.origWorker>>

\* The pre-intercept implementations the throttle script captured, in the
\* order of Bindings.
Captured(p) ==
    <<p.originals.setTimeout, p.originals.setInterval,
      p.originals.requestAnimationFrame, p.originals.cancelAnimationFrame,
      p.origCanvasGetContext, p.origResizeObserver, p.origIntersectionObserver,
      p.origWorker>>

CapabilityNames ==
    <<"setTimeout", "setInterval", "requestAnimationFrame", "cancelAnimationFrame",
      "getContext", "ResizeObserver", "IntersectionObserver", "Worker">>

\* What the restore file states it cannot put back.  restore-script.js
\* 170-176 says of the observers and of Worker that they are no longer
\* throttled; part_001 208-213 says that existing worker instances stay
\* throttled.  Neither names one of the eight global bindings.
DeclaredNotRestorable(v) == IF v = "A" THEN {} ELSE {"workerInstances"}

LastOp == IF docOps = <<>> THEN "none" ELSE docOps[Len(docOps)]

\* The number of floor replacements a call of the timer function f passes.
RECURSIVE Floors(_)
Floors(f) ==
    IF f = <<>> THEN 0
    ELSE (IF Head(f) \in {"floorTimeout", "floorInterval"} THEN 1 ELSE 0)
             + Floors(Tail(f))

\* C33 as stated: whatever throttle-entries and restores the document has
\* seen, after a throttle-entry its setTimeout and setInterval pass exactly
\* one floor replacement, and after a restore they hand the requested delay
\* to the scheduler unchanged.
C33_NoStackedInterception ==
    /\ LastOp = "throttle"
          => Floors(doc.setTimeout) = 1 /\ Floors(doc.setInterval) = 1
    /\ LastOp = "restore"
          => \A delay \in DelayArgs :
                /\ PassedDelay(doc.setTimeout, delay) = delay
                /\ PassedDelay(doc.setInterval, delay) = delay

\* C2: a run of the throttle script in a document whose marker is set leaves
\* the Intercept Record, the installed bindings, the Media Snapshot list and
\* the marker as they were.
C2_ThrottleTwiceIsNoOp ==
    [][(docOps' = Append(docOps, "throttle") /\ doc.applied)
          => /\ InterceptRecord(doc') = InterceptRecord(doc)
             /\ Bindings(doc') = Bindings(doc)
             /\ doc'.mediaStateDefined = doc.mediaStateDefined
             /\ doc'.mediaState = doc.mediaState
             /\ doc'.applied = doc.applied]_vars

C2_Witness == docOps = <<"throttle", "throttle">> /\ doc.applied

\* C3: after throttle-entry followed at once by restore, each of the eight
\* intercepted bindings is the very function it was before throttle-entry.
C3_BindingsRoundTrip ==
    docOps = <<"throttle", "restore">> => Bindings(doc) = Bindings(docPre)

\* C4: after throttle-entry followed at once by restore, with playback
\* permitted by the browser, every media element of the document has its
\* paused state, position, autoplay flag and muted flag as before.
C4_MediaRoundTrip ==
    (docOps = <<"throttle", "restore">> /\ doc.playAllowed)
        => \A e \in Elems :
              docPre.media[e].inDoc =>
                  /\ doc.media[e].paused = docPre.media[e].paused
                  /\ doc.media[e].currentTime = docPre.media[e].currentTime
                  /\ doc.media[e].autoplay = docPre.media[e].autoplay
                  /\ doc.media[e].muted = docPre.media[e].muted

\* C5: a run of the restore script in a document whose marker is unset
\* changes nothing in the document and leaves the marker unset.
C5_RestoreUnmarkedIsNoOp ==
    [][(docOps' = Append(docOps, "restore") /\ ~doc.applied)
          => (doc' = doc /\ ~doc'.applied)]_vars

C5_Witness == LastOp = "restore" /\ Len(docOps) = 1 /\ ~doc.applied

\* C15 as stated: a run of the restore script in a marked document leaves each
\* replaced binding either equal to the original the throttle script captured
\* for it or declared not restorable by the restore file.
C15_RecordComplete ==
    [][(docOps' = Append(docOps, "restore") /\ doc.applied)
          => \A i \in DOMAIN CapabilityNames :
                \/ Bindings(doc')[i] = Captured(doc)[i]
                \/ CapabilityNames[i] \in DeclaredNotRestorable(variant)]_vars

\* C17 as stated: a run of the restore script in a marked document clears the
\* marker and leaves every element that is no longer in the document as it
\* was: no playback is started on it.
C17_DetachedNotResumed ==
    [][(docOps' = Append(docOps, "restore") /\ doc.applied)
          => /\ ~doc'.applied
             /\ \A e \in Elems :
                   ~doc.media[e].inDoc => doc'.media[e].paused = doc.media[e].paused]_vars

\* C25 as stated: after throttle-entry in a document that made some property
\* non-configurable, every other capability is replaced; and the restore
\* that follows runs to its end and unsets the marker.
C25_IndependentInterceptions ==
    /\ docOps = <<"throttle">>
          => \A i \in DOMAIN CapabilityNames :
                CapabilityNames[i] \notin doc.locked
                    => Bindings(doc)[i] # Bindings(docPre)[i]
    /\ docOps = <<"throttle", "restore">> => ~doc.applied

\* What the throttle script stores on the global scope, the media elements,
\* the root element and the document head.
NothingLeft(p) ==
    /\ ~p.applied
    /\ ~p.originals.defined
    /\ ~IsDefined(p.origCanvasGetContext)
    /\ ~IsDefined(p.origResizeObserver)
    /\ ~IsDefined(p.origIntersectionObserver)
    /\ ~IsDefined(p.origWorker)
    /\ ~p.rafIdMap
    /\ ~p.canvasRenderMap
    /\ ~p.mediaStateDefined
    /\ p.mediaState = <<>>
    /\ ~p.mediaObserver
    /\ ~p.rootAttr
    /\ ~p.styleInHead
    /\ ~p.styleRef
    /\ ~p.overflowInline
    /\ \A e \in Elems :
          p.media[e].inDoc
              => /\ ~p.media[e].throttledFlag
                 /\ ~IsDefined(p.media[e].originalPlay)
                 /\ ~p.media[e].wasPlayingAttr

\* C26 as stated: once the restore script has run to its end in a throttled
\* document, no marker, stored original, snapshot, attribute, inline
\* overflow style or stylesheet of the throttle script is left.
C26_NothingLeftAfterRestore ==
    docOps = <<"throttle", "restore">> => NothingLeft(doc)

\* C27 as stated: the identifiers returned by the throttled
\* requestAnimationFrame are distinct; no callback runs twice, and none runs
\* after a cancelAnimationFrame call found its entry; and an identifier
\* whose callback ran or was cancelled has no entry in rafIdMap any more.
C27_FrameIdentifiers ==
    LET r == frames.requests
    IN  /\ \A i, j \in DOMAIN r : i # j => r[i].id # r[j].id
        /\ \A i \in DOMAIN r :
              /\ r[i].fired <= 1
              /\ ~(r[i].cancelled /\ r[i].fired > 0)
              /\ (r[i].fired > 0 \/ r[i].cancelled) => ~r[i].mapped

\* C28 as stated: once the restore script has run, no deferred-frame timer
\* of the throttled requestAnimationFrame is pending, and no deferred
\* callback runs after the restore.
C28_RestoreDropsDeferredFrames ==
    frames.restored
        => \A i \in DOMAIN frames.requests :
              frames.requests[i].type = "timeout"
                  => ~frames.requests[i].scheduled /\ ~frames.requests[i].lateFire

\* C29: a 2D surface carries at most one replacement of its draw operations,
\* however often it is acquired and across throttle, restore and throttle;
\* the operations stored for restoration are never replacements; and a call
\* of a replaced operation is dropped exactly when the surface rendered
\* less than the minimum interval before it, and reaches the surface
\* otherwise.
C29_CanvasWrappedOnce ==
    \A c \in Canvases :
        LET s == surfaces[c]
        IN  /\ Wrappers(s.draw) <= 1
            /\ Wrappers(s.stored) = 0
            /\ s.flag <=> IsDefined(s.stored)
            /\ s.flag <=> Wrappers(s.draw) = 1
            /\ s.lastCall.outcome = "suppressed"
                  => s.lastCall.wrappers = 1 /\ ~s.lastCall.due
            /\ s.lastCall.outcome = "drawn" /\ s.lastCall.wrappers = 1
                  => s.lastCall.due

C29_Witness ==
    \E c \in Canvases :
        /\ doc.applied
        /\ surfaces[c].reacquired
        /\ surfaces[c].lastCall.outcome = "suppressed"

\* C30: while the document is throttled, every media element the throttle
\* script treated, at throttle-entry or through the MutationObserver, has
\* exactly one entry in the Media Snapshot list, every entry belongs to a
\* treated element, and the play method of a treated element is the one
\* that rejects.
C30_OneSnapshotPerElement ==
    doc.applied /\ doc.mediaStateDefined
        => /\ \A e \in Elems :
                 doc.media[e].throttledFlag
                     => /\ Cardinality({i \in DOMAIN doc.mediaState :
                                           doc.mediaState[i].element = e}) = 1
                        /\ doc.media[e].play = <<"blockedPlay">>
           /\ \A i \in DOMAIN doc.mediaState :
                 doc.media[doc.mediaState[i].element].throttledFlag

\* An element treated at throttle-entry was taken out, put back and seen
\* again by the observer, and another was treated through the observer only.
C30_Witness ==
    /\ doc.applied
    /\ Len(doc.mediaState) = NumMedia
    /\ doc.mutations = <<>>
    /\ docOps = <<"throttle", "detach">>
    /\ \A e \in Elems : doc.media[e].inDoc /\ doc.media[e].throttledFlag
    /\ \E e \in Elems : ~docPre.media[e].inDoc

\* The position of step x in the sequence q, 0 when q does not hold it.
Position(q, x) ==
    IF \E i \in DOMAIN q : q[i] = x
    THEN CHOOSE i \in DOMAIN q : q[i] = x /\ \A j \in DOMAIN q : q[j] = x => i <= j
    ELSE 0

Before(q, x, y) == Position(q, y) > 0 => (0 < Position(q, x) /\ Position(q, x) < Position(q, y))

C32_ScrollPreserved ==
    [][(docOps' = Append(docOps, "restore") /\ doc.applied /\ doc.styleRef)
          => doc'.scroll = doc.scroll]_vars

FloorOf(fn) == IF fn = "setTimeout" THEN ONE_SHOT_FLOOR ELSE REPEATING_FLOOR

Larger(a, b) == IF a >= b THEN a ELSE b

\* C16 as stated: every setTimeout or setInterval call made in a throttled
\* document reaches the scheduler with the larger of the requested delay and
\* the floor of its kind.
C16_TimerFloor ==
    \A i \in DOMAIN timerCalls :
        timerCalls[i].throttled =>
            EffectiveDelay(timerCalls[i].passed) =
                Larger(EffectiveDelay(DefaultTo(timerCalls[i].requested, JsNumber(0))),
                       FloorOf(timerCalls[i].fn))

----------------------------------------------------------------------------
(* Properties of the allow-list (SpecWL) *)

\* host equals entry, or ends with "." followed by entry
HostMatches(host, entry) == host = entry \/ EndsWith(host, <<".">> \o entry)

WlDone == wlResult # "unset"

WlExempt == Truthy(wlResult)

\* C6 as stated: for every allow-list of non-empty entries the URL is exempt
\* exactly when its host is a listed entry or a subdomain of one on a label
\* boundary.
C6_MembershipAnyEntry ==
    (WlDone /\ <<>> \notin wlSites)
        => (WlExempt <=> (/\ wlUrl.present
                          /\ wlUrl.valid
                          /\ \E e \in wlSites : HostMatches(wlUrl.hostname, e)))

\* An entry of exactly two labels, the first of which is not www.
TwoLabelEntry(e) ==
    /\ Len(Split(e)) = 2
    /\ \A i \in 1..2 : Split(e)[i] # <<>>
    /\ Split(e)[1] # <<"w", "w", "w">>

\* C6 restricted to the entries the code handles: for an allow-list whose
\* entries all have exactly two labels, the first not www, the URL is exempt
\* exactly when its host is a listed entry or a subdomain of one on a label
\* boundary.
C6_MembershipTwoLabel ==
    (WlDone /\ \A e \in wlSites : TwoLabelEntry(e))
        => (WlExempt <=> (/\ wlUrl.present
                          /\ wlUrl.valid
                          /\ \E e \in wlSites : HostMatches(wlUrl.hostname, e)))

\* C7: a string that does not parse as a URL, and a URL with an empty host,
\* are never exempt, whatever the allow-list holds.
C7_MalformedNotExempt ==
    (WlDone /\ (~wlUrl.present \/ ~wlUrl.valid \/ wlUrl.hostname = <<>>))
        => ~WlExempt

C7_Witness == WlDone /\ wlUrl.present /\ ~wlUrl.valid /\ wlSites = SitePool

====
